---- MODULE Spec2Model ----
(***************************************************************************)
(* State-machine model of the LedgerFlow backend's authorization core:     *)
(* the auth service (signup / login / refresh / logout over User and       *)
(* Session rows), the workspace role resolver (requireWorkspaceRole,       *)
(* createWorkspace, inviteMember, setWorkspaceRole) and the project        *)
(* permission resolver (setProjectPermission, enforceProjectPermission).   *)
(*                                                                         *)
(* Conventions                                                             *)
(*   - a JS null / undefined / "" string is "", a null timestamp is <<>>   *)
(*     and a set timestamp t is <<t>>;                                     *)
(*   - row ids are the naturals 1, 2, ... in creation order;               *)
(*   - crypto.randomBytes never repeats a value: the n-th opaque refresh   *)
(*     token is <<"rt", n>>, the n-th session token <<"st", n>>;           *)
(*   - SHA-256 and bcrypt are injective, non-identity constructors;        *)
(*   - the clock counts days;                                              *)
(*   - `last` is the response being handed to the client: the operation    *)
(*     the latest step performed, its arguments, the HTTP status the       *)
(*     controller answers with and the body it returns.  Every operation   *)
(*     sets it; Deliver clears it before the next operation starts.        *)
(***************************************************************************)
EXTENDS Integers, Sequences, FiniteSets, TLC

VARIABLES
  users,        \* User rows, in creation order (id = index)
  sessions,     \* Session rows, in creation order (id = index)
  nextToken,    \* number of opaque refresh tokens generated so far
  now,          \* the clock (Date.now()), in days
  inflight,     \* per request slot: a refresh call suspended between its
                \* findFirst and its update (<<>> when none)
  used,         \* history: refresh tokens with which a refresh has succeeded
  workspaces,   \* Workspace rows, in creation order (id = index)
  memberships,  \* Membership rows: set of [userId, workspaceId, role]
  projects,     \* Project rows, in creation order (id = index); a deleted
                \* row stays in place, marked, so that ids are never reused
  permissions,  \* Permission rows: set of [userId, projectId, canRead, ...]
  environments, \* Environment rows, in creation order (id = index)
  ciRuns,       \* CiRun rows, in creation order (id = index)
  repoLinks,    \* GitHubRepoLink rows: set of [projectId, repoOwner, repoName,
                \* webhookSecret]
  apiTokens,    \* ApiToken rows, in creation order (id = index); a deleted
                \* row stays in place, marked
  last          \* the operation performed by the latest step

authVars == <<users, sessions, nextToken, now, inflight, used, apiTokens>>
wsVars   == <<workspaces, memberships>>
resVars  == <<environments, ciRuns, repoLinks>>
projVars == <<projects, permissions, resVars>>
vars     == <<users, sessions, nextToken, now, inflight, used,
              workspaces, memberships, projects, permissions,
              environments, ciRuns, repoLinks, apiTokens, last>>

----------------------------------------------------------------------------
(* Bounds of the model *)

MaxUsers    == 2
MaxSessions == 2
MaxTokens   == 3
MaxNow      == 30
MaxRuns     == 2
MaxWorkspaces == 2
MaxApiTokens == 3
TickDays    == 30

(* Program constants *)

REFRESH_TOKEN_TTL_DAYS == 30

(* Input domains *)

Emails    == <<"a@x.com", "b@x.com", "c@x.com">>
Procs     == {"r1", "r2"}
NoContext == [userAgent |-> "", ipAddress |-> ""]
Contexts  == {NoContext, [userAgent |-> "ua1", ipAddress |-> "ip1"]}

Range(s) == {s[i] : i \in DOMAIN s}

----------------------------------------------------------------------------
(* Pure helpers of the auth service *)

daysFromNow(days) == now + days

hashToken(token) == <<"sha256">> \o token

hashPassword(plain) == <<"bcrypt", plain>>

verifyPassword(plain, hash) == hash = hashPassword(plain)

signAccessToken(user) ==
  [sub |-> user.id, email |-> user.email,
   iss |-> "ledgerflow-backend", aud |-> "ledgerflow-clients"]

createRefreshTokenPair ==
  LET refreshToken == <<"rt", nextToken + 1>>
  IN  [refreshToken |-> refreshToken, refreshTokenHash |-> hashToken(refreshToken)]

Or(a, b) == IF a # "" THEN a ELSE b

publicUser(user) == [id |-> user.id, email |-> user.email]

findUserByEmail(email) == {u \in Range(users) : u.email = email}

findUserById(id) == {u \in Range(users) : u.id = id}

\* a session is valid iff it is not revoked and its expiry is in the future
isActive(s) == s.revokedAt = <<>> /\ s.expiresAt > now

NoArgs == [none |-> TRUE]
NoRet  == [none |-> TRUE]

Idle == [op |-> "idle", status |-> 0, args |-> NoArgs, ret |-> NoRet]

Respond(op, status, args, ret) ==
  last' = [op |-> op, status |-> status, args |-> args, ret |-> ret]

----------------------------------------------------------------------------
(* Session store *)

\* mutant: the plaintext refresh token is stored instead of its hash
newSessionRow_StoresPlainToken(userId, ctx) ==
  [id               |-> Len(sessions) + 1,
   userId           |-> userId,
   sessionToken     |-> <<"st", Len(sessions) + 1>>,
   refreshTokenHash |-> createRefreshTokenPair.refreshToken,
   userAgent        |-> Or(ctx.userAgent, ""),
   ipAddress        |-> Or(ctx.ipAddress, ""),
   expiresAt        |-> daysFromNow(REFRESH_TOKEN_TTL_DAYS),
   revokedAt        |-> <<>>]

newSessionRow(userId, ctx) ==
  [id               |-> Len(sessions) + 1,
   userId           |-> userId,
   sessionToken     |-> <<"st", Len(sessions) + 1>>,
   refreshTokenHash |-> createRefreshTokenPair.refreshTokenHash,
   userAgent        |-> Or(ctx.userAgent, ""),
   ipAddress        |-> Or(ctx.ipAddress, ""),
   expiresAt        |-> daysFromNow(REFRESH_TOKEN_TTL_DAYS),
   revokedAt        |-> <<>>]

\* prisma.session.create + the plaintext token handed back to the caller
createSessionForUser(userId, ctx) ==
  /\ sessions' = Append(sessions, newSessionRow(userId, ctx))
  /\ nextToken' = nextToken + 1

\* where: <<>> in a field means the field is not part of the filter
matchesWhere(s, where) ==
  /\ (where.sessionToken # <<>> => s.sessionToken = where.sessionToken)
  /\ (where.refreshTokenHash # <<>> => s.refreshTokenHash = where.refreshTokenHash)

\* mutant: the revokedAt: null filter is missing, so a revoked session is
\* stamped again
revokeSession_Overwrite(where) ==
  sessions' = [i \in DOMAIN sessions |->
                 IF matchesWhere(sessions[i], where)
                 THEN [sessions[i] EXCEPT !.revokedAt = <<now>>]
                 ELSE sessions[i]]

\* prisma.session.updateMany({where: {...where, revokedAt: null}, data: {revokedAt: now}})
revokeSession(where) ==
  sessions' = [i \in DOMAIN sessions |->
                 IF matchesWhere(sessions[i], where) /\ sessions[i].revokedAt = <<>>
                 THEN [sessions[i] EXCEPT !.revokedAt = <<now>>]
                 ELSE sessions[i]]

----------------------------------------------------------------------------
(* Auth service operations *)

signup(email, password, ctx) ==
  LET args == [email |-> email, password |-> password] IN
  IF email = "" \/ password = "" THEN
    /\ Respond("signup", 400, args, NoRet)
    /\ UNCHANGED <<authVars, wsVars, projVars>>
  ELSE IF findUserByEmail(email) # {} THEN
    /\ Respond("signup", 409, args, NoRet)
    /\ UNCHANGED <<authVars, wsVars, projVars>>
  ELSE
    LET user == [id |-> Len(users) + 1, email |-> email,
                 passwordHash |-> hashPassword(password)]
    IN  /\ Len(users) < MaxUsers
        /\ Len(sessions) < MaxSessions
        /\ nextToken < MaxTokens
        /\ users' = Append(users, user)
        /\ createSessionForUser(user.id, ctx)
        /\ Respond("signup", 201, args,
                   [user         |-> publicUser(user),
                    accessToken  |-> signAccessToken(user),
                    refreshToken |-> createRefreshTokenPair.refreshToken,
                    sessionId    |-> Len(sessions) + 1])
        /\ UNCHANGED <<now, inflight, used, wsVars, projVars, apiTokens>>

login(email, password, ctx) ==
  LET args == [email |-> email, password |-> password]
      found == findUserByEmail(email)
  IN
  IF email = "" \/ password = "" THEN
    /\ Respond("login", 400, args, NoRet)
    /\ UNCHANGED <<authVars, wsVars, projVars>>
  ELSE IF found = {} \/ (\A u \in found : ~verifyPassword(password, u.passwordHash)) THEN
    /\ Respond("login", 401, args, NoRet)
    /\ UNCHANGED <<authVars, wsVars, projVars>>
  ELSE
    \E user \in found :
        /\ Len(sessions) < MaxSessions
        /\ nextToken < MaxTokens
        /\ createSessionForUser(user.id, ctx)
        /\ Respond("login", 200, args,
                   [user         |-> publicUser(user),
                    accessToken  |-> signAccessToken(user),
                    refreshToken |-> createRefreshTokenPair.refreshToken,
                    sessionId    |-> Len(sessions) + 1])
        /\ UNCHANGED <<users, now, inflight, used, wsVars, projVars, apiTokens>>

\* mutant: the expiry comparison is gte instead of gt
refreshCandidates_ExpiryNotStrict(sessionToken, refreshToken) ==
  {s \in Range(sessions) :
      /\ (sessionToken # <<>> => s.sessionToken = sessionToken)
      /\ s.refreshTokenHash = hashToken(refreshToken)
      /\ s.revokedAt = <<>>
      /\ s.expiresAt >= now}

\* prisma.session.findFirst of refresh: the rows the where-clause admits
refreshCandidates(sessionToken, refreshToken) ==
  {s \in Range(sessions) :
      /\ (sessionToken # <<>> => s.sessionToken = sessionToken)
      /\ s.refreshTokenHash = hashToken(refreshToken)
      /\ s.revokedAt = <<>>
      /\ s.expiresAt > now}

\* refresh, first half: validation and the findFirst lookup.  On a hit the
\* call suspends (await) holding the row it read.
refreshLookup(p, sessionToken, refreshToken, ctx) ==
  LET args == [sessionToken |-> sessionToken, refreshToken |-> refreshToken]
      cands == refreshCandidates(sessionToken, refreshToken)
  IN
  /\ inflight[p] = <<>>
  /\ IF refreshToken = <<>> THEN
       /\ Respond("refresh", 400, args, NoRet)
       /\ UNCHANGED <<authVars, wsVars, projVars>>
     ELSE IF cands = {} \/ (\A s \in cands : findUserById(s.userId) = {}) THEN
       /\ Respond("refresh", 401, args, NoRet)
       /\ UNCHANGED <<authVars, wsVars, projVars>>
     ELSE
       \E session \in cands :
         /\ nextToken < MaxTokens
         /\ inflight' = [inflight EXCEPT ![p] =
                           <<[session |-> [id        |-> session.id,
                                           userId    |-> session.userId,
                                           userAgent |-> session.userAgent,
                                           ipAddress |-> session.ipAddress],
                              args    |-> args,
                              context |-> ctx]>>]
         /\ Respond("refreshFound", 0, args, NoRet)
         /\ UNCHANGED <<users, sessions, nextToken, now, used, wsVars, projVars, apiTokens>>

\* mutant: the rotation extends the expiry but keeps the stored hash
rotateSession_KeepsHash(session, ctx) ==
  sessions' = [i \in DOMAIN sessions |->
                 IF sessions[i].id = session.id
                 THEN [sessions[i] EXCEPT
                         !.expiresAt = daysFromNow(REFRESH_TOKEN_TTL_DAYS),
                         !.userAgent = Or(ctx.userAgent, session.userAgent),
                         !.ipAddress = Or(ctx.ipAddress, session.ipAddress)]
                 ELSE sessions[i]]

\* prisma.session.update({where: {id: session.id}, data: {...}}) of refresh
rotateSession(session, ctx) ==
  sessions' = [i \in DOMAIN sessions |->
                 IF sessions[i].id = session.id
                 THEN [sessions[i] EXCEPT
                         !.refreshTokenHash = createRefreshTokenPair.refreshTokenHash,
                         !.expiresAt = daysFromNow(REFRESH_TOKEN_TTL_DAYS),
                         !.userAgent = Or(ctx.userAgent, session.userAgent),
                         !.ipAddress = Or(ctx.ipAddress, session.ipAddress)]
                 ELSE sessions[i]]

\* mutant: the update saves the row as the lookup read it, revokedAt: null
\* included
refreshUpdate_SavesRowAsRead(p) ==
  /\ inflight[p] # <<>>
  /\ nextToken < MaxTokens
  /\ LET call    == inflight[p][1]
         session == call.session
     IN  \E user \in findUserById(session.userId) :
           /\ sessions' = [i \in DOMAIN sessions |->
                 IF sessions[i].id = session.id
                 THEN [sessions[i] EXCEPT
                         !.refreshTokenHash = createRefreshTokenPair.refreshTokenHash,
                         !.expiresAt = daysFromNow(REFRESH_TOKEN_TTL_DAYS),
                         !.userAgent = Or(call.context.userAgent, session.userAgent),
                         !.ipAddress = Or(call.context.ipAddress, session.ipAddress),
                         !.revokedAt = <<>>]
                 ELSE sessions[i]]
           /\ nextToken' = nextToken + 1
           /\ used' = used \cup {call.args.refreshToken}
           /\ inflight' = [inflight EXCEPT ![p] = <<>>]
           /\ Respond("refresh", 200, call.args,
                      [user         |-> publicUser(user),
                       accessToken  |-> signAccessToken(user),
                       refreshToken |-> createRefreshTokenPair.refreshToken,
                       sessionId    |-> session.id])
           /\ UNCHANGED <<users, now, wsVars, projVars, apiTokens>>

\* refresh, second half: rotate the stored hash and answer with the new pair
refreshUpdate(p) ==
  /\ inflight[p] # <<>>
  /\ nextToken < MaxTokens
  /\ LET call    == inflight[p][1]
         session == call.session
     IN  \E user \in findUserById(session.userId) :
           /\ rotateSession(session, call.context)
           /\ nextToken' = nextToken + 1
           /\ used' = used \cup {call.args.refreshToken}
           /\ inflight' = [inflight EXCEPT ![p] = <<>>]
           /\ Respond("refresh", 200, call.args,
                      [user         |-> publicUser(user),
                       accessToken  |-> signAccessToken(user),
                       refreshToken |-> createRefreshTokenPair.refreshToken,
                       sessionId    |-> session.id])
           /\ UNCHANGED <<users, now, wsVars, projVars, apiTokens>>

\* mutant: a refreshToken supplied with a sessionToken narrows the selection
logoutWhere_BothFilters(sessionToken, refreshToken) ==
  [sessionToken |-> sessionToken,
   refreshTokenHash |-> IF refreshToken # <<>> THEN hashToken(refreshToken) ELSE <<>>]

\* sessionToken selects if supplied, else the hash of refreshToken
logoutWhere(sessionToken, refreshToken) ==
  IF sessionToken # <<>>
  THEN [sessionToken |-> sessionToken, refreshTokenHash |-> <<>>]
  ELSE [sessionToken |-> <<>>, refreshTokenHash |-> hashToken(refreshToken)]

logout(sessionToken, refreshToken) ==
  LET args == [sessionToken |-> sessionToken, refreshToken |-> refreshToken] IN
  IF sessionToken = <<>> /\ refreshToken = <<>> THEN
    /\ Respond("logout", 400, args, NoRet)
    /\ UNCHANGED <<authVars, wsVars, projVars>>
  ELSE
    /\ revokeSession(logoutWhere(sessionToken, refreshToken))
    /\ Respond("logout", 200, args, [success |-> TRUE])
    /\ UNCHANGED <<users, nextToken, now, inflight, used, wsVars, projVars, apiTokens>>

\* the clock advances
Tick ==
  /\ now + TickDays <= MaxNow
  /\ now' = now + TickDays
  /\ UNCHANGED <<users, sessions, nextToken, inflight, used, wsVars, projVars, last, apiTokens>>

\* the response has been sent; the server picks up the next request
Deliver ==
  /\ last # Idle
  /\ last' = Idle
  /\ UNCHANGED <<authVars, wsVars, projVars>>

----------------------------------------------------------------------------
(* Workspace service: role resolver *)

ROLE_ORDER == [OWNER |-> 5, ADMIN |-> 4, MAINTAINER |-> 3, DEVELOPER |-> 2, VIEWER |-> 1]

Roles == DOMAIN ROLE_ORDER

\* !ROLE_ORDER[role] is false
isRole(role) == role \in Roles

findWorkspaceById(workspaceId) == {w \in Range(workspaces) : w.id = workspaceId}

findWorkspaceBySlug(slug) == {w \in Range(workspaces) : w.slug = slug}

\* prisma.membership.findUnique({where: {userId_workspaceId: {userId, workspaceId}}})
findMembership(userId, workspaceId) ==
  {m \in memberships : m.userId = userId /\ m.workspaceId = workspaceId}

Fail(status, message) == [status |-> status, error |-> message]

\* mutant: the rank comparison is <= instead of <, so an equal rank is refused
requireWorkspaceRole_RefusesEqualRank(userId, workspaceId, requiredRole) ==
  IF findWorkspaceById(workspaceId) = {} THEN Fail(404, "Workspace not found")
  ELSE LET found == findMembership(userId, workspaceId) IN
    IF found = {} THEN Fail(403, "Forbidden: not a workspace member")
    ELSE LET membership == CHOOSE m \in found : TRUE IN
      IF ROLE_ORDER[membership.role] <= ROLE_ORDER[requiredRole]
      THEN Fail(403, "Forbidden: insufficient role")
      ELSE [status |-> 200, membership |-> membership]

\* mutant: the membership is looked up before the workspace
requireWorkspaceRole_MembershipFirst(userId, workspaceId, requiredRole) ==
  LET found == findMembership(userId, workspaceId) IN
  IF found = {} THEN Fail(403, "Forbidden: not a workspace member")
  ELSE IF findWorkspaceById(workspaceId) = {} THEN Fail(404, "Workspace not found")
  ELSE LET membership == CHOOSE m \in found : TRUE IN
      IF ROLE_ORDER[membership.role] < ROLE_ORDER[requiredRole]
      THEN Fail(403, "Forbidden: insufficient role")
      ELSE [status |-> 200, membership |-> membership]

\* the guard: a failure (the thrown error's status and message) or the membership
requireWorkspaceRole(userId, workspaceId, requiredRole) ==
  IF findWorkspaceById(workspaceId) = {} THEN Fail(404, "Workspace not found")
  ELSE LET found == findMembership(userId, workspaceId) IN
    IF found = {} THEN Fail(403, "Forbidden: not a workspace member")
    ELSE LET membership == CHOOSE m \in found : TRUE IN
      IF ROLE_ORDER[membership.role] < ROLE_ORDER[requiredRole]
      THEN Fail(403, "Forbidden: insufficient role")
      ELSE [status |-> 200, membership |-> membership]

\* a caller applies the guard and does nothing else
checkWorkspaceRole(userId, workspaceId, requiredRole) ==
  LET args == [userId |-> userId, workspaceId |-> workspaceId, role |-> requiredRole]
      r    == requireWorkspaceRole(userId, workspaceId, requiredRole)
  IN  /\ Respond("requireWorkspaceRole", r.status, args, r)
      /\ UNCHANGED <<authVars, wsVars, projVars>>

\* an optional string of a request body is <<>> when undefined and <<s>> when
\* it is s.  `if (field)`: the field is given and not the empty string
truthy(field) == field # <<>> /\ field[1] # ""

\* ...(field !== undefined ? {field} : {}) in the data of an update
orKeepText(field, current) == IF field = <<>> THEN current ELSE field[1]

\* the workspace row created for `userId`
newWorkspace(userId, name, slug) ==
  [id |-> Len(workspaces) + 1, name |-> name, slug |-> slug,
   description |-> "", ownerId |-> userId]

\* the transaction commits: the workspace and the owner's membership
committed(ws, userId) ==
  /\ workspaces' = Append(workspaces, ws)
  /\ memberships' = memberships \cup
        {[userId |-> userId, workspaceId |-> ws.id, role |-> "OWNER"]}

\* mutant: the two inserts are not in one transaction, so a failure of the
\* second leaves the workspace row behind
rolledBack_KeepsWorkspace(ws, userId) ==
  /\ workspaces' = Append(workspaces, ws)
  /\ memberships' = memberships

\* the membership insert throws inside prisma.$transaction: neither row stays
rolledBack(ws, userId) == UNCHANGED wsVars

\* The last branch is the transaction: it commits, or the membership insert
\* fails after the workspace insert (an error without status) and it rolls back
createWorkspace(userId, name, slug) ==
  LET args == [userId |-> userId, name |-> name, slug |-> slug] IN
  IF name = "" \/ slug = "" THEN
    /\ Respond("createWorkspace", 400, args, Fail(400, "name and slug are required"))
    /\ UNCHANGED <<authVars, wsVars, projVars>>
  ELSE IF findWorkspaceBySlug(slug) # {} THEN
    /\ Respond("createWorkspace", 409, args, Fail(409, "Workspace slug already exists"))
    /\ UNCHANGED <<authVars, wsVars, projVars>>
  ELSE
    LET ws == newWorkspace(userId, name, slug) IN
    \/ /\ committed(ws, userId)
       /\ Respond("createWorkspace", 201, args, [status |-> 201, workspace |-> ws])
       /\ UNCHANGED <<authVars, projVars>>
    \/ /\ rolledBack(ws, userId)
       /\ Respond("createWorkspace", 500, args, Fail(500, "Transaction failed"))
       /\ UNCHANGED <<authVars, projVars>>

\* the row prisma.workspace.update({where: {id: workspaceId}, data}) would write
updatedWorkspace(row, body) ==
  [row EXCEPT !.name = orKeepText(body.name, @),
              !.slug = orKeepText(body.slug, @)]

\* the unique constraint on slug refuses the row
workspaceSlugTaken(row) ==
  \E w \in Range(workspaces) : w.id # row.id /\ w.slug = row.slug

\* body: [name, slug], each optional.  An update that the unique constraint
\* refuses throws a Prisma error without status
updateWorkspace(userId, workspaceId, body) ==
  LET args   == [userId |-> userId, workspaceId |-> workspaceId, body |-> body]
      acting == requireWorkspaceRole(userId, workspaceId, "ADMIN")
      existingSlug == IF truthy(body.slug)
                      THEN findWorkspaceBySlug(body.slug[1]) ELSE {}
  IN
  IF acting.status # 200 THEN
    /\ Respond("updateWorkspace", acting.status, args, acting)
    /\ UNCHANGED <<authVars, wsVars, projVars>>
  ELSE IF \E w \in existingSlug : w.id # workspaceId THEN
    /\ Respond("updateWorkspace", 409, args, Fail(409, "Workspace slug already exists"))
    /\ UNCHANGED <<authVars, wsVars, projVars>>
  ELSE
    \E row \in findWorkspaceById(workspaceId) :
      IF workspaceSlugTaken(updatedWorkspace(row, body)) THEN
        /\ Respond("updateWorkspace", 500, args, Fail(500, "Unique constraint failed"))
        /\ UNCHANGED <<authVars, wsVars, projVars>>
      ELSE
        /\ workspaces' = [workspaces EXCEPT ![row.id] = updatedWorkspace(row, body)]
        /\ Respond("updateWorkspace", 200, args,
                   [status |-> 200, workspace |-> updatedWorkspace(row, body)])
        /\ UNCHANGED <<authVars, memberships, projVars>>

\* mutant: the upsert always creates, so a second row of the pair appears
withRole_AlwaysCreates(userId, workspaceId, role) ==
  memberships \cup {[userId |-> userId, workspaceId |-> workspaceId, role |-> role]}

\* prisma.membership.upsert / update: the (userId, workspaceId) row gets `role`
withRole(userId, workspaceId, role) ==
  {m \in memberships : ~(m.userId = userId /\ m.workspaceId = workspaceId)}
    \cup {[userId |-> userId, workspaceId |-> workspaceId, role |-> role]}

\* role = "" is an absent role: the parameter's default applies
inviteMember(userId, workspaceId, email, roleArg) ==
  LET role   == IF roleArg = "" THEN "VIEWER" ELSE roleArg
      args   == [userId |-> userId, workspaceId |-> workspaceId,
                 email |-> email, role |-> roleArg]
      acting == requireWorkspaceRole(userId, workspaceId, "ADMIN")
      found  == findUserByEmail(email)
  IN
  IF acting.status # 200 THEN
    /\ Respond("inviteMember", acting.status, args, acting)
    /\ UNCHANGED <<authVars, wsVars, projVars>>
  ELSE IF email = "" THEN
    /\ Respond("inviteMember", 400, args, Fail(400, "email is required"))
    /\ UNCHANGED <<authVars, wsVars, projVars>>
  ELSE IF ~isRole(role) THEN
    /\ Respond("inviteMember", 400, args, Fail(400, "invalid role"))
    /\ UNCHANGED <<authVars, wsVars, projVars>>
  ELSE IF found = {} THEN
    /\ Respond("inviteMember", 200, args, [status |-> 200, result |-> "invited"])
    /\ UNCHANGED <<authVars, wsVars, projVars>>
  ELSE
    \E user \in found :
      /\ memberships' = withRole(user.id, workspaceId, role)
      /\ Respond("inviteMember", 200, args,
                 [status |-> 200, result |-> "added",
                  membership |-> [userId |-> user.id, workspaceId |-> workspaceId,
                                  role |-> role]])
      /\ UNCHANGED <<authVars, workspaces, projVars>>

----------------------------------------------------------------------------
(* Permissions service: workspace roles *)

\* mutant: only the new role is checked for OWNER; demoting an OWNER is open
\* to an ADMIN
ownerTransition_NewRoleOnly(role, target) == role = "OWNER"

\* role === 'OWNER' || target.role === 'OWNER'
ownerTransition(role, target) == role = "OWNER" \/ target.role = "OWNER"

\* userId = 0 is an absent target user id, role = "" an absent role
setWorkspaceRole(currentUserId, workspaceId, userId, role) ==
  LET args   == [userId |-> currentUserId, workspaceId |-> workspaceId,
                 targetUserId |-> userId, role |-> role]
      acting == requireWorkspaceRole(currentUserId, workspaceId, "ADMIN")
      found  == findMembership(userId, workspaceId)
  IN
  IF userId = 0 \/ role = "" THEN
    /\ Respond("setWorkspaceRole", 400, args, Fail(400, "userId and role are required"))
    /\ UNCHANGED <<authVars, wsVars, projVars>>
  ELSE IF ~isRole(role) THEN
    /\ Respond("setWorkspaceRole", 400, args, Fail(400, "invalid role"))
    /\ UNCHANGED <<authVars, wsVars, projVars>>
  ELSE IF acting.status # 200 THEN
    /\ Respond("setWorkspaceRole", acting.status, args, acting)
    /\ UNCHANGED <<authVars, wsVars, projVars>>
  ELSE IF found = {} THEN
    /\ Respond("setWorkspaceRole", 404, args, Fail(404, "Target membership not found"))
    /\ UNCHANGED <<authVars, wsVars, projVars>>
  ELSE
    \E target \in found :
      IF ownerTransition(role, target) /\ acting.membership.role # "OWNER" THEN
        /\ Respond("setWorkspaceRole", 403, args,
                   Fail(403, "Forbidden: only OWNER can change OWNER roles"))
        /\ UNCHANGED <<authVars, wsVars, projVars>>
      ELSE
        /\ memberships' = withRole(userId, workspaceId, role)
        /\ Respond("setWorkspaceRole", 200, args,
                   [status |-> 200,
                    membership |-> [userId |-> userId, workspaceId |-> workspaceId,
                                    role |-> role]])
        /\ UNCHANGED <<authVars, workspaces, projVars>>

----------------------------------------------------------------------------
(* Projects service *)

\* prisma.project.findFirst({where: {id: projectId, workspaceId}})
\* the rows of a table that have not been deleted
Live(rows) == {r \in Range(rows) : ~r.deleted}

findProject(projectId, workspaceId) ==
  {p \in Live(projects) : p.id = projectId /\ p.workspaceId = workspaceId}

\* prisma.project.findUnique({where: {workspaceId_slug: {workspaceId, slug}}})
findProjectBySlug(workspaceId, slug) ==
  {p \in Live(projects) : p.workspaceId = workspaceId /\ p.slug = slug}

createProject(userId, workspaceId, name, slug) ==
  LET args   == [userId |-> userId, workspaceId |-> workspaceId,
                 name |-> name, slug |-> slug]
      acting == requireWorkspaceRole(userId, workspaceId, "MAINTAINER")
      project == [id |-> Len(projects) + 1, workspaceId |-> workspaceId,
                  name |-> name, slug |-> slug,
                  description |-> "", defaultBranch |-> "", deleted |-> FALSE]
  IN
  IF acting.status # 200 THEN
    /\ Respond("createProject", acting.status, args, acting)
    /\ UNCHANGED <<authVars, wsVars, projVars>>
  ELSE IF name = "" \/ slug = "" THEN
    /\ Respond("createProject", 400, args, Fail(400, "name and slug are required"))
    /\ UNCHANGED <<authVars, wsVars, projVars>>
  ELSE IF findProjectBySlug(workspaceId, slug) # {} THEN
    /\ Respond("createProject", 409, args,
               Fail(409, "Project slug already exists in this workspace"))
    /\ UNCHANGED <<authVars, wsVars, projVars>>
  ELSE
    /\ projects' = Append(projects, project)
    /\ Respond("createProject", 201, args, [status |-> 201, project |-> project])
    /\ UNCHANGED <<authVars, wsVars, permissions, resVars>>

getProject(userId, workspaceId, projectId) ==
  LET args   == [userId |-> userId, workspaceId |-> workspaceId,
                 projectId |-> projectId]
      member == requireWorkspaceRole(userId, workspaceId, "VIEWER")
      found  == findProject(projectId, workspaceId)
  IN
  /\ UNCHANGED <<authVars, wsVars, projVars>>
  /\ IF member.status # 200 THEN
       Respond("getProject", member.status, args, member)
     ELSE IF found = {} THEN
       Respond("getProject", 404, args, Fail(404, "Project not found"))
     ELSE
       \E project \in found :
         Respond("getProject", 200, args, [status |-> 200, project |-> project])

\* the row prisma.project.update({where: {id: projectId}, data}) would write
updatedProject(row, body) ==
  [row EXCEPT !.name = orKeepText(body.name, @),
              !.slug = orKeepText(body.slug, @)]

\* the unique constraint (workspaceId, slug) refuses the row
projectSlugTaken(row) ==
  \E p \in Live(projects) :
    p.id # row.id /\ p.workspaceId = row.workspaceId /\ p.slug = row.slug

\* body: [name, slug], each optional.  An update of a row that does not exist,
\* or that the unique constraint refuses, throws a Prisma error without status
updateProject(userId, workspaceId, projectId, body) ==
  LET args     == [userId |-> userId, workspaceId |-> workspaceId,
                   projectId |-> projectId, body |-> body]
      acting   == requireWorkspaceRole(userId, workspaceId, "MAINTAINER")
      existing == IF truthy(body.slug)
                  THEN findProjectBySlug(workspaceId, body.slug[1]) ELSE {}
      rows     == {p \in Live(projects) : p.id = projectId}
  IN
  IF acting.status # 200 THEN
    /\ Respond("updateProject", acting.status, args, acting)
    /\ UNCHANGED <<authVars, wsVars, projVars>>
  ELSE IF \E p \in existing : p.id # projectId THEN
    /\ Respond("updateProject", 409, args,
               Fail(409, "Project slug already exists in this workspace"))
    /\ UNCHANGED <<authVars, wsVars, projVars>>
  ELSE IF rows = {} THEN
    /\ Respond("updateProject", 500, args, Fail(500, "Record to update not found"))
    /\ UNCHANGED <<authVars, wsVars, projVars>>
  ELSE
    \E row \in rows :
      IF projectSlugTaken(updatedProject(row, body)) THEN
        /\ Respond("updateProject", 500, args, Fail(500, "Unique constraint failed"))
        /\ UNCHANGED <<authVars, wsVars, projVars>>
      ELSE
        /\ projects' = [projects EXCEPT ![row.id] = updatedProject(row, body)]
        /\ Respond("updateProject", 200, args,
                   [status |-> 200, project |-> updatedProject(row, body)])
        /\ UNCHANGED <<authVars, wsVars, permissions, resVars>>

\* rows that reference the project
hasDependents(projectId) ==
  \/ \E p \in permissions : p.projectId = projectId
  \/ \E e \in Live(environments) : e.projectId = projectId
  \/ \E r \in Live(ciRuns) : r.projectId = projectId
  \/ \E l \in repoLinks : l.projectId = projectId

\* mark the rows of a table whose index is in `gone` as deleted
markDeleted(rows, gone) ==
  [i \in DOMAIN rows |->
     IF i \in gone THEN [rows[i] EXCEPT !.deleted = TRUE] ELSE rows[i]]

\* prisma.project.delete({where: {id}}) with the referencing rows removed too
deleteCascading(projectId) ==
  LET OfProject(rows) == {i \in DOMAIN rows : rows[i].projectId = projectId}
  IN  /\ projects' = markDeleted(projects, {projectId})
      /\ permissions' = {p \in permissions : p.projectId # projectId}
      /\ environments' = markDeleted(environments, OfProject(environments))
      /\ ciRuns' = markDeleted(ciRuns, OfProject(ciRuns))
      /\ repoLinks' = {l \in repoLinks : l.projectId # projectId}

\* What the delete does to referencing rows is set by the database schema: it
\* either removes them with the project or refuses the delete with an error
\* that carries no status.  Both outcomes are allowed here.
deleteProject(userId, workspaceId, projectId) ==
  LET args   == [userId |-> userId, workspaceId |-> workspaceId,
                 projectId |-> projectId]
      acting == requireWorkspaceRole(userId, workspaceId, "ADMIN")
  IN
  IF acting.status # 200 THEN
    /\ Respond("deleteProject", acting.status, args, acting)
    /\ UNCHANGED <<authVars, wsVars, projVars>>
  ELSE IF findProject(projectId, workspaceId) = {} THEN
    /\ Respond("deleteProject", 404, args, Fail(404, "Project not found"))
    /\ UNCHANGED <<authVars, wsVars, projVars>>
  ELSE
    \/ /\ deleteCascading(projectId)
       /\ Respond("deleteProject", 200, args, [status |-> 200, success |-> TRUE])
       /\ UNCHANGED <<authVars, wsVars>>
    \/ /\ hasDependents(projectId)
       /\ Respond("deleteProject", 500, args,
                  Fail(500, "Foreign key constraint failed"))
       /\ UNCHANGED <<authVars, wsVars, projVars>>

----------------------------------------------------------------------------
(* Permissions service: project permissions *)

\* an optional boolean of a request body: <<>> is undefined, <<b>> is b
Flags == {<<>>, <<TRUE>>, <<FALSE>>}

\* prisma.permission.findUnique({where: {userId_projectId: {userId, projectId}}})
findPermission(userId, projectId) ==
  {p \in permissions : p.userId = userId /\ p.projectId = projectId}

\* mutant: the fallback to the caller's own canAdmin flag is missing
hasAdmin_RoleOnly(currentUserId, workspaceId, projectId) ==
  requireWorkspaceRole(currentUserId, workspaceId, "ADMIN").status = 200

\* workspace ADMIN or above, else the caller's own canAdmin flag on the project
hasAdmin(currentUserId, workspaceId, projectId) ==
  IF requireWorkspaceRole(currentUserId, workspaceId, "ADMIN").status = 200
  THEN TRUE
  ELSE \E perm \in findPermission(currentUserId, projectId) : perm.canAdmin

getProjectPermissions(currentUserId, workspaceId, projectId) ==
  LET args   == [userId |-> currentUserId, workspaceId |-> workspaceId,
                 projectId |-> projectId]
      member == requireWorkspaceRole(currentUserId, workspaceId, "VIEWER")
  IN
  /\ UNCHANGED <<authVars, wsVars, projVars>>
  /\ IF member.status # 200 THEN
       Respond("getProjectPermissions", member.status, args, member)
     ELSE IF findProject(projectId, workspaceId) = {} THEN
       Respond("getProjectPermissions", 404, args, Fail(404, "Project not found"))
     ELSE IF ~hasAdmin(currentUserId, workspaceId, projectId) THEN
       Respond("getProjectPermissions", 403, args, Fail(403, "Forbidden"))
     ELSE
       Respond("getProjectPermissions", 200, args,
               [status |-> 200,
                permissions |-> {p \in permissions : p.projectId = projectId}])

\* the value a flag takes when the row is created
orDefault(flag, default) == IF flag = <<>> THEN default ELSE flag[1]

\* the value a flag takes when the row is updated
orKeep(flag, current) == IF flag = <<>> THEN current ELSE flag[1]

\* prisma.permission.upsert on (userId, projectId)
upsertPermission(userId, projectId, body) ==
  LET found == findPermission(userId, projectId) IN
  IF found = {} THEN
    [userId     |-> userId,
     projectId  |-> projectId,
     canRead    |-> orDefault(body.canRead, TRUE),
     canWrite   |-> orDefault(body.canWrite, FALSE),
     canExecute |-> orDefault(body.canExecute, FALSE),
     canAdmin   |-> orDefault(body.canAdmin, FALSE)]
  ELSE
    LET row == CHOOSE p \in found : TRUE IN
    [row EXCEPT !.canRead    = orKeep(body.canRead, @),
                !.canWrite   = orKeep(body.canWrite, @),
                !.canExecute = orKeep(body.canExecute, @),
                !.canAdmin   = orKeep(body.canAdmin, @)]

\* body.userId = 0 is an absent target user id
setProjectPermission(currentUserId, workspaceId, projectId, body) ==
  LET args    == [userId |-> currentUserId, workspaceId |-> workspaceId,
                  projectId |-> projectId, body |-> body]
      member  == requireWorkspaceRole(currentUserId, workspaceId, "VIEWER")
      updated == upsertPermission(body.userId, projectId, body)
  IN
  IF body.userId = 0 THEN
    /\ Respond("setProjectPermission", 400, args, Fail(400, "userId is required"))
    /\ UNCHANGED <<authVars, wsVars, projVars>>
  ELSE IF member.status # 200 THEN
    /\ Respond("setProjectPermission", member.status, args, member)
    /\ UNCHANGED <<authVars, wsVars, projVars>>
  ELSE IF findProject(projectId, workspaceId) = {} THEN
    /\ Respond("setProjectPermission", 404, args, Fail(404, "Project not found"))
    /\ UNCHANGED <<authVars, wsVars, projVars>>
  ELSE IF ~hasAdmin(currentUserId, workspaceId, projectId) THEN
    /\ Respond("setProjectPermission", 403, args, Fail(403, "Forbidden"))
    /\ UNCHANGED <<authVars, wsVars, projVars>>
  ELSE IF findUserById(body.userId) = {} THEN
    /\ Respond("setProjectPermission", 404, args, Fail(404, "User not found"))
    /\ UNCHANGED <<authVars, wsVars, projVars>>
  ELSE
    /\ permissions' = (permissions \ findPermission(body.userId, projectId))
                        \cup {updated}
    /\ Respond("setProjectPermission", 200, args,
               [status |-> 200, permission |-> updated])
    /\ UNCHANGED <<authVars, wsVars, projects, resVars>>

\* the keys of the `checks` object literal
Capabilities == {"read", "write", "execute", "admin"}

\* names `checks` inherits from Object.prototype as functions whose result,
\* called on the row, is truthy
InheritedTruthy == {"constructor", "toString", "toLocaleString", "valueOf"}

\* names `checks` inherits from Object.prototype that are not functions:
\* calling them throws a TypeError, which carries no status
InheritedNotCallable == {"__proto__"}

\* checks[required]?.(perm): perm is the set holding the row, empty when the
\* row is missing
checks(required, perm) ==
  CASE required = "read"    -> \E p \in perm : p.canRead \/ p.canAdmin
    [] required = "write"   -> \E p \in perm : p.canWrite \/ p.canAdmin
    [] required = "execute" -> \E p \in perm : p.canExecute \/ p.canAdmin
    [] required = "admin"   -> \E p \in perm : p.canAdmin
    [] required \in InheritedTruthy -> TRUE
    [] OTHER -> FALSE

\* mutant: a granting row authorizes before tenancy is established
enforceProjectPermission_RowBeforeMembership(userId, workspaceId, projectId, required) ==
  LET member == requireWorkspaceRole(userId, workspaceId, "VIEWER") IN
  IF checks(required, findPermission(userId, projectId)) THEN [status |-> 200, ok |-> TRUE]
  ELSE IF member.status # 200 THEN member
  ELSE IF findProject(projectId, workspaceId) = {} THEN Fail(404, "Project not found")
  ELSE Fail(403, "Forbidden")

enforceProjectPermission(userId, workspaceId, projectId, required) ==
  LET member == requireWorkspaceRole(userId, workspaceId, "VIEWER") IN
  IF member.status # 200 THEN member
  ELSE IF findProject(projectId, workspaceId) = {} THEN Fail(404, "Project not found")
  ELSE IF required \in InheritedNotCallable THEN
    Fail(500, "checks[required] is not a function")
  ELSE IF ~checks(required, findPermission(userId, projectId)) THEN Fail(403, "Forbidden")
  ELSE [status |-> 200, ok |-> TRUE]

\* the middleware; userId = 0 is a request without req.user.sub, an id of 0 a
\* missing path parameter; status 200 stands for next()
requireProjectPermission(userId, workspaceId, projectId, required) ==
  LET args   == [userId |-> userId, workspaceId |-> workspaceId,
                 projectId |-> projectId, required |-> required]
      result == enforceProjectPermission(userId, workspaceId, projectId, required)
  IN
  /\ UNCHANGED <<authVars, wsVars, projVars>>
  /\ IF userId = 0 THEN
       Respond("requireProjectPermission", 401, args, Fail(401, "Unauthorized"))
     ELSE IF workspaceId = 0 \/ projectId = 0 THEN
       Respond("requireProjectPermission", 400, args,
               Fail(400, "workspaceId and projectId are required in path"))
     ELSE
       Respond("requireProjectPermission", result.status, args, result)

----------------------------------------------------------------------------
(* Environments service *)

\* prisma.environment.findUnique({where: {projectId_name: {projectId, name}}})
findEnvironmentByName(projectId, name) ==
  {e \in Live(environments) : e.projectId = projectId /\ e.name = name}

\* prisma.environment.findFirst({where: {id, projectId, project: {workspaceId}}})
findEnvironment(environmentId, projectId, workspaceId) ==
  {e \in Live(environments) :
     /\ e.id = environmentId
     /\ e.projectId = projectId
     /\ findProject(projectId, workspaceId) # {}}

listEnvironments(userId, workspaceId, projectId) ==
  LET args   == [userId |-> userId, workspaceId |-> workspaceId,
                 projectId |-> projectId]
      member == requireWorkspaceRole(userId, workspaceId, "VIEWER")
  IN
  /\ UNCHANGED <<authVars, wsVars, projVars>>
  /\ IF member.status # 200 THEN
       Respond("listEnvironments", member.status, args, member)
     ELSE IF findProject(projectId, workspaceId) = {} THEN
       Respond("listEnvironments", 404, args, Fail(404, "Project not found"))
     ELSE
       Respond("listEnvironments", 200, args,
               [status |-> 200,
                environments |-> {e \in Live(environments) : e.projectId = projectId}])

\* name = "" or type = "" is an absent field
createEnvironment(userId, workspaceId, projectId, name, type) ==
  LET args   == [userId |-> userId, workspaceId |-> workspaceId,
                 projectId |-> projectId, name |-> name, type |-> type]
      acting == requireWorkspaceRole(userId, workspaceId, "MAINTAINER")
      environment == [id |-> Len(environments) + 1, projectId |-> projectId,
                      name |-> name, type |-> type, deleted |-> FALSE]
  IN
  IF acting.status # 200 THEN
    /\ Respond("createEnvironment", acting.status, args, acting)
    /\ UNCHANGED <<authVars, wsVars, projVars>>
  ELSE IF name = "" \/ type = "" THEN
    /\ Respond("createEnvironment", 400, args, Fail(400, "name and type are required"))
    /\ UNCHANGED <<authVars, wsVars, projVars>>
  ELSE IF findProject(projectId, workspaceId) = {} THEN
    /\ Respond("createEnvironment", 404, args, Fail(404, "Project not found"))
    /\ UNCHANGED <<authVars, wsVars, projVars>>
  ELSE IF findEnvironmentByName(projectId, name) # {} THEN
    /\ Respond("createEnvironment", 409, args,
               Fail(409, "Environment name already exists for this project"))
    /\ UNCHANGED <<authVars, wsVars, projVars>>
  ELSE
    /\ environments' = Append(environments, environment)
    /\ Respond("createEnvironment", 201, args,
               [status |-> 201, environment |-> environment])
    /\ UNCHANGED <<authVars, wsVars, projects, permissions, ciRuns, repoLinks>>

\* the row prisma.environment.update({where: {id}, data}) would write
updatedEnvironment(row, body) ==
  [row EXCEPT !.name = orKeepText(body.name, @),
              !.type = orKeepText(body.type, @)]

\* the unique constraint (projectId, name) refuses the row
environmentNameTaken(row) ==
  \E e \in Live(environments) :
    e.id # row.id /\ e.projectId = row.projectId /\ e.name = row.name

\* body: [name, type], each optional
updateEnvironment(userId, workspaceId, projectId, environmentId, body) ==
  LET args   == [userId |-> userId, workspaceId |-> workspaceId,
                 projectId |-> projectId, environmentId |-> environmentId,
                 body |-> body]
      acting == requireWorkspaceRole(userId, workspaceId, "MAINTAINER")
      found  == findEnvironment(environmentId, projectId, workspaceId)
  IN
  IF acting.status # 200 THEN
    /\ Respond("updateEnvironment", acting.status, args, acting)
    /\ UNCHANGED <<authVars, wsVars, projVars>>
  ELSE IF found = {} THEN
    /\ Respond("updateEnvironment", 404, args, Fail(404, "Environment not found"))
    /\ UNCHANGED <<authVars, wsVars, projVars>>
  ELSE
    \E env \in found :
      IF /\ truthy(body.name) /\ body.name[1] # env.name
         /\ \E e \in findEnvironmentByName(projectId, body.name[1]) :
              e.id # environmentId
      THEN
        /\ Respond("updateEnvironment", 409, args,
                   Fail(409, "Environment name already exists for this project"))
        /\ UNCHANGED <<authVars, wsVars, projVars>>
      ELSE IF environmentNameTaken(updatedEnvironment(env, body)) THEN
        /\ Respond("updateEnvironment", 500, args,
                   Fail(500, "Unique constraint failed"))
        /\ UNCHANGED <<authVars, wsVars, projVars>>
      ELSE
        /\ environments' =
             [environments EXCEPT ![env.id] = updatedEnvironment(env, body)]
        /\ Respond("updateEnvironment", 200, args,
                   [status |-> 200, environment |-> updatedEnvironment(env, body)])
        /\ UNCHANGED <<authVars, wsVars, projects, permissions, ciRuns, repoLinks>>

----------------------------------------------------------------------------
(* CI runs service; the list and latest queries are called without filters *)

\* ensureProjectInWorkspace
ensureProjectInWorkspace(projectId, workspaceId) == findProject(projectId, workspaceId)

runsOfProject(projectId) == {r \in Live(ciRuns) : r.projectId = projectId}

listCiRuns(userId, workspaceId, projectId) ==
  LET args   == [userId |-> userId, workspaceId |-> workspaceId,
                 projectId |-> projectId]
      member == requireWorkspaceRole(userId, workspaceId, "VIEWER")
  IN
  /\ UNCHANGED <<authVars, wsVars, projVars>>
  /\ IF member.status # 200 THEN
       Respond("listCiRuns", member.status, args, member)
     ELSE IF ensureProjectInWorkspace(projectId, workspaceId) = {} THEN
       Respond("listCiRuns", 404, args, Fail(404, "Project not found"))
     ELSE
       Respond("listCiRuns", 200, args,
               [status |-> 200, total |-> Cardinality(runsOfProject(projectId)),
                runs |-> runsOfProject(projectId)])

getCiRun(userId, workspaceId, projectId, ciRunId) ==
  LET args   == [userId |-> userId, workspaceId |-> workspaceId,
                 projectId |-> projectId, ciRunId |-> ciRunId]
      member == requireWorkspaceRole(userId, workspaceId, "VIEWER")
      found  == {r \in runsOfProject(projectId) :
                   r.id = ciRunId /\ findProject(projectId, workspaceId) # {}}
  IN
  /\ UNCHANGED <<authVars, wsVars, projVars>>
  /\ IF member.status # 200 THEN
       Respond("getCiRun", member.status, args, member)
     ELSE IF found = {} THEN
       Respond("getCiRun", 404, args, Fail(404, "CI run not found"))
     ELSE
       \E run \in found :
         Respond("getCiRun", 200, args, [status |-> 200, run |-> run])

\* status = "" is an absent status, environmentId = 0 an absent environment;
\* startedAt takes the creation instant, which grows with every run
createCiRun(userId, workspaceId, projectId, environmentId, status) ==
  LET args   == [userId |-> userId, workspaceId |-> workspaceId,
                 projectId |-> projectId, environmentId |-> environmentId,
                 status |-> status]
      acting == requireWorkspaceRole(userId, workspaceId, "MAINTAINER")
      run    == [id |-> Len(ciRuns) + 1, projectId |-> projectId,
                 environmentId |-> environmentId, status |-> status,
                 triggeredById |-> userId, startedAt |-> Len(ciRuns) + 1,
                 deleted |-> FALSE]
  IN
  IF acting.status # 200 THEN
    /\ Respond("createCiRun", acting.status, args, acting)
    /\ UNCHANGED <<authVars, wsVars, projVars>>
  ELSE IF ensureProjectInWorkspace(projectId, workspaceId) = {} THEN
    /\ Respond("createCiRun", 404, args, Fail(404, "Project not found"))
    /\ UNCHANGED <<authVars, wsVars, projVars>>
  ELSE IF status = "" THEN
    /\ Respond("createCiRun", 400, args, Fail(400, "status is required"))
    /\ UNCHANGED <<authVars, wsVars, projVars>>
  ELSE IF /\ environmentId # 0
          /\ {e \in Live(environments) :
                e.id = environmentId /\ e.projectId = projectId} = {}
  THEN
    /\ Respond("createCiRun", 400, args,
               Fail(400, "Invalid environmentId for this project"))
    /\ UNCHANGED <<authVars, wsVars, projVars>>
  ELSE
    /\ ciRuns' = Append(ciRuns, run)
    /\ Respond("createCiRun", 201, args, [status |-> 201, run |-> run])
    /\ UNCHANGED <<authVars, wsVars, projects, permissions, environments, repoLinks>>

\* prisma.ciRun.findFirst({where: {projectId}, orderBy: [{startedAt: 'desc'}]})
latestRun(projectId) ==
  {r \in runsOfProject(projectId) :
     \A o \in runsOfProject(projectId) : o.startedAt <= r.startedAt}

getLatestCiStatus(userId, workspaceId, projectId) ==
  LET args   == [userId |-> userId, workspaceId |-> workspaceId,
                 projectId |-> projectId]
      member == requireWorkspaceRole(userId, workspaceId, "VIEWER")
  IN
  /\ UNCHANGED <<authVars, wsVars, projVars>>
  /\ IF member.status # 200 THEN
       Respond("getLatestCiStatus", member.status, args, member)
     ELSE
       Respond("getLatestCiStatus", 200, args,
               [status |-> 200, latest |-> latestRun(projectId)])

----------------------------------------------------------------------------
(* GitHub service *)

\* prisma.gitHubRepoLink.findUnique({where: {unique_github_repo: {...}}})
findLinkByRepo(repoOwner, repoName) ==
  {l \in repoLinks : l.repoOwner = repoOwner /\ l.repoName = repoName}

\* prisma.gitHubRepoLink.findFirst({where: {projectId}})
findLinkByProject(projectId) == {l \in repoLinks : l.projectId = projectId}

\* the upsert creates the link with webhookSecret: null ("") and its update
\* leaves the stored secret alone
keptSecret(existing) ==
  IF existing = {} THEN "" ELSE (CHOOSE l \in existing : TRUE).webhookSecret

\* repoOwner = "" or repoName = "" is an absent field
linkRepoToProject(userId, workspaceId, projectId, repoOwner, repoName) ==
  LET args   == [userId |-> userId, workspaceId |-> workspaceId,
                 projectId |-> projectId, repoOwner |-> repoOwner,
                 repoName |-> repoName]
      acting == requireWorkspaceRole(userId, workspaceId, "MAINTAINER")
      link   == [projectId |-> projectId, repoOwner |-> repoOwner,
                 repoName |-> repoName,
                 webhookSecret |-> keptSecret(findLinkByProject(projectId))]
  IN
  IF acting.status # 200 THEN
    /\ Respond("linkRepoToProject", acting.status, args, acting)
    /\ UNCHANGED <<authVars, wsVars, projVars>>
  ELSE IF findProject(projectId, workspaceId) = {} THEN
    /\ Respond("linkRepoToProject", 404, args, Fail(404, "Project not found"))
    /\ UNCHANGED <<authVars, wsVars, projVars>>
  ELSE IF repoOwner = "" \/ repoName = "" THEN
    /\ Respond("linkRepoToProject", 400, args,
               Fail(400, "repoOwner and repoName are required"))
    /\ UNCHANGED <<authVars, wsVars, projVars>>
  ELSE IF \E l \in findLinkByRepo(repoOwner, repoName) : l.projectId # projectId THEN
    /\ Respond("linkRepoToProject", 409, args,
               Fail(409, "This GitHub repository is already linked to another project"))
    /\ UNCHANGED <<authVars, wsVars, projVars>>
  ELSE
    /\ repoLinks' = {l \in repoLinks : l.projectId # projectId} \cup {link}
    /\ Respond("linkRepoToProject", 200, args, [status |-> 200, link |-> link])
    /\ UNCHANGED <<authVars, wsVars, projects, permissions, environments, ciRuns>>

\* mutant: a project that has no link is refused
unlinkRepoFromProject_RefusesUnlinked(userId, workspaceId, projectId) ==
  LET args   == [userId |-> userId, workspaceId |-> workspaceId,
                 projectId |-> projectId]
      acting == requireWorkspaceRole(userId, workspaceId, "MAINTAINER")
  IN
  IF acting.status # 200 THEN
    /\ Respond("unlinkRepoFromProject", acting.status, args, acting)
    /\ UNCHANGED <<authVars, wsVars, projVars>>
  ELSE IF findProject(projectId, workspaceId) = {} THEN
    /\ Respond("unlinkRepoFromProject", 404, args, Fail(404, "Project not found"))
    /\ UNCHANGED <<authVars, wsVars, projVars>>
  ELSE IF findLinkByProject(projectId) = {} THEN
    /\ Respond("unlinkRepoFromProject", 500, args, Fail(500, "Record to delete does not exist"))
    /\ UNCHANGED <<authVars, wsVars, projVars>>
  ELSE
    /\ repoLinks' = {l \in repoLinks : l.projectId # projectId}
    /\ Respond("unlinkRepoFromProject", 200, args, [status |-> 200, success |-> TRUE])
    /\ UNCHANGED <<authVars, wsVars, projects, permissions, environments, ciRuns>>

\* the delete's rejection for a missing row is swallowed by .catch(() => {})
unlinkRepoFromProject(userId, workspaceId, projectId) ==
  LET args   == [userId |-> userId, workspaceId |-> workspaceId,
                 projectId |-> projectId]
      acting == requireWorkspaceRole(userId, workspaceId, "MAINTAINER")
  IN
  IF acting.status # 200 THEN
    /\ Respond("unlinkRepoFromProject", acting.status, args, acting)
    /\ UNCHANGED <<authVars, wsVars, projVars>>
  ELSE IF findProject(projectId, workspaceId) = {} THEN
    /\ Respond("unlinkRepoFromProject", 404, args, Fail(404, "Project not found"))
    /\ UNCHANGED <<authVars, wsVars, projVars>>
  ELSE
    /\ repoLinks' = {l \in repoLinks : l.projectId # projectId}
    /\ Respond("unlinkRepoFromProject", 200, args, [status |-> 200, success |-> TRUE])
    /\ UNCHANGED <<authVars, wsVars, projects, permissions, environments, ciRuns>>

----------------------------------------------------------------------------
(* Webhook signature verification.  Strings that are compared byte by byte
   are sequences; a header that was not sent is <<>>, as is the empty string
   that `signatureHeader || ''` makes of it *)

\* crypto.createHmac('sha256', secret).update(payloadBody): an ideal MAC, one
\* value for each pair of key and message
HmacSha256(secret, payloadBody) == <<secret, payloadBody>>

\* .digest('hex')
hex(mac) == <<"hex">> \o mac

\* 'sha256=' + hmac.update(payloadBody).digest('hex')
digestOf(secret, payloadBody) == <<"sha256=">> \o hex(HmacSha256(secret, payloadBody))

\* crypto.timingSafeEqual throws a RangeError for inputs of different length
timingSafeEqual(a, b) ==
  IF Len(a) # Len(b) THEN [threw |-> TRUE, equal |-> FALSE]
  ELSE [threw |-> FALSE, equal |-> a = b]

\* mutant: the comparison stops at the end of the shorter input
verifyGitHubSignature_ComparesPrefix(secret, payloadBody, signatureHeader) ==
  IF secret = "" THEN
    [ok |-> TRUE, reason |-> "No secret configured - skipping verification (dev stub)"]
  ELSE
    LET digest   == digestOf(secret, payloadBody)
        provided == signatureHeader
        n        == IF Len(digest) < Len(provided) THEN Len(digest) ELSE Len(provided)
        ok       == SubSeq(digest, 1, n) = SubSeq(provided, 1, n)
    IN  [ok |-> ok, reason |-> IF ok THEN "Verified" ELSE "Signature mismatch"]

verifyGitHubSignature(secret, payloadBody, signatureHeader) ==
  IF secret = "" THEN
    [ok |-> TRUE, reason |-> "No secret configured - skipping verification (dev stub)"]
  ELSE
    LET digest   == digestOf(secret, payloadBody)
        provided == signatureHeader
        compared == timingSafeEqual(digest, provided)
    IN  IF compared.threw THEN [ok |-> FALSE, reason |-> "Verification error"]
        ELSE [ok |-> compared.equal,
              reason |-> IF compared.equal THEN "Verified" ELSE "Signature mismatch"]

\* mutant: the process-wide secret is preferred to the link's
secretFor_EnvFirst(link, env) == IF env # "" THEN env ELSE link.webhookSecret

\* link.webhookSecret || process.env.GITHUB_WEBHOOK_SECRET || ''
\* ("" is a secret that is null, unset or empty)
secretFor(link, env) == IF link.webhookSecret # "" THEN link.webhookSecret ELSE env

\* prisma.gitHubRepoLink.findFirst({where: {projectId, project: {workspaceId}}})
findLinkInWorkspace(projectId, workspaceId) ==
  {l \in repoLinks : l.projectId = projectId /\ findProject(projectId, workspaceId) # {}}

\* what handleWebhook answers; env is process.env.GITHUB_WEBHOOK_SECRET
handled(workspaceId, projectId, rawBody, signatureHeader, env) ==
  LET found == findLinkInWorkspace(projectId, workspaceId) IN
  IF found = {} THEN Fail(404, "No GitHub link for this project")
  ELSE LET link     == CHOOSE l \in found : TRUE
           verified == verifyGitHubSignature(secretFor(link, env), rawBody, signatureHeader)
       IN  IF ~verified.ok THEN Fail(401, <<"Invalid signature", verified.reason>>)
           ELSE [status |-> 200, received |-> TRUE]

handleWebhook(workspaceId, projectId, rawBody, signatureHeader, env) ==
  LET args == [workspaceId |-> workspaceId, projectId |-> projectId,
               rawBody |-> rawBody, signatureHeader |-> signatureHeader,
               env |-> env]
      ret  == handled(workspaceId, projectId, rawBody, signatureHeader, env)
  IN  /\ Respond("handleWebhook", ret.status, args, ret)
      /\ UNCHANGED <<authVars, wsVars, projVars>>

\* JSON.parse of a request body, a sequence of characters: the object, as the
\* set of its keys (bodies here have at most one key and no values)
JSONparse(text) == {c \in Range(text) : c \notin {"{", "}", " "}}

\* JSON.stringify: the object's text without white space
JSONstringify(object) ==
  IF object = {} THEN <<"{", "}">>
  ELSE <<"{", CHOOSE k \in object : TRUE, "}">>

\* rawBodySaver: req.rawBody is the received bytes as a string, '' when empty
rawBodySaver(buf) == buf

\* GitHubController.webhook behind express.json({verify: rawBodySaver}):
\* req.rawBody || JSON.stringify(req.body || {}); req.body is {} for an
\* empty body
signedBytes(buf) ==
  LET reqRawBody == rawBodySaver(buf)
      reqBody    == JSONparse(buf)
  IN  IF reqRawBody # <<>> THEN reqRawBody ELSE JSONstringify(reqBody)

webhook(workspaceId, projectId, buf, signatureHeader, env) ==
  LET args == [workspaceId |-> workspaceId, projectId |-> projectId,
               buf |-> buf, signatureHeader |-> signatureHeader, env |-> env]
      ret  == handled(workspaceId, projectId, signedBytes(buf), signatureHeader, env)
  IN  /\ Respond("webhook", ret.status, args, ret)
      /\ UNCHANGED <<authVars, wsVars, projVars>>

----------------------------------------------------------------------------
(* Settings service: API tokens.  currentUserId = 0 is an unauthenticated
   caller, tokenId = 0 an absent id, name = "" an absent name *)

sha256(input) == <<"sha256", input>>

\* the stored record without its tokenHash
safe(row) == [id |-> row.id, userId |-> row.userId, name |-> row.name]

findApiToken(tokenId) == {t \in Live(apiTokens) : t.id = tokenId}

createApiToken(currentUserId, name) ==
  LET args  == [userId |-> currentUserId, name |-> name]
      token == <<"lfp", Len(apiTokens) + 1>>
      row   == [id |-> Len(apiTokens) + 1, userId |-> currentUserId,
                name |-> name, tokenHash |-> sha256(token), deleted |-> FALSE]
  IN
  IF currentUserId = 0 THEN
    /\ Respond("createApiToken", 401, args, Fail(401, "Unauthorized"))
    /\ UNCHANGED <<users, sessions, nextToken, now, inflight, used, apiTokens,
                   wsVars, projVars>>
  ELSE IF name = "" THEN
    /\ Respond("createApiToken", 400, args, Fail(400, "name is required"))
    /\ UNCHANGED <<users, sessions, nextToken, now, inflight, used, apiTokens,
                   wsVars, projVars>>
  ELSE
    /\ apiTokens' = Append(apiTokens, row)
    /\ Respond("createApiToken", 201, args,
               [status |-> 201, token |-> token, apiToken |-> safe(row)])
    /\ UNCHANGED <<users, sessions, nextToken, now, inflight, used, wsVars, projVars>>

listApiTokens(currentUserId) ==
  LET args == [userId |-> currentUserId] IN
  /\ UNCHANGED <<authVars, wsVars, projVars>>
  /\ IF currentUserId = 0 THEN
       Respond("listApiTokens", 401, args, Fail(401, "Unauthorized"))
     ELSE
       Respond("listApiTokens", 200, args,
               [status |-> 200,
                tokens |-> {safe(t) : t \in {r \in Live(apiTokens) :
                                               r.userId = currentUserId}}])

\* mutant: the owner test is missing
revokeApiToken_AnyCaller(currentUserId, tokenId) ==
  LET args  == [userId |-> currentUserId, tokenId |-> tokenId]
      found == findApiToken(tokenId)
  IN
  IF currentUserId = 0 THEN
    /\ Respond("revokeApiToken", 401, args, Fail(401, "Unauthorized"))
    /\ UNCHANGED <<authVars, wsVars, projVars>>
  ELSE IF tokenId = 0 THEN
    /\ Respond("revokeApiToken", 400, args, Fail(400, "tokenId is required"))
    /\ UNCHANGED <<authVars, wsVars, projVars>>
  ELSE IF found = {} THEN
    /\ Respond("revokeApiToken", 404, args, Fail(404, "Not found"))
    /\ UNCHANGED <<authVars, wsVars, projVars>>
  ELSE
    /\ apiTokens' = markDeleted(apiTokens, {tokenId})
    /\ Respond("revokeApiToken", 200, args, [status |-> 200, revoked |-> TRUE])
    /\ UNCHANGED <<users, sessions, nextToken, now, inflight, used, wsVars, projVars>>

revokeApiToken(currentUserId, tokenId) ==
  LET args  == [userId |-> currentUserId, tokenId |-> tokenId]
      found == findApiToken(tokenId)
  IN
  IF currentUserId = 0 THEN
    /\ Respond("revokeApiToken", 401, args, Fail(401, "Unauthorized"))
    /\ UNCHANGED <<authVars, wsVars, projVars>>
  ELSE IF tokenId = 0 THEN
    /\ Respond("revokeApiToken", 400, args, Fail(400, "tokenId is required"))
    /\ UNCHANGED <<authVars, wsVars, projVars>>
  ELSE IF found = {} THEN
    /\ Respond("revokeApiToken", 404, args, Fail(404, "Not found"))
    /\ UNCHANGED <<authVars, wsVars, projVars>>
  ELSE IF \E t \in found : t.userId # currentUserId THEN
    /\ Respond("revokeApiToken", 403, args, Fail(403, "Forbidden"))
    /\ UNCHANGED <<authVars, wsVars, projVars>>
  ELSE
    /\ apiTokens' = markDeleted(apiTokens, {tokenId})
    /\ Respond("revokeApiToken", 200, args, [status |-> 200, revoked |-> TRUE])
    /\ UNCHANGED <<users, sessions, nextToken, now, inflight, used, wsVars, projVars>>

----------------------------------------------------------------------------

Init ==
  /\ users = <<>>
  /\ sessions = <<>>
  /\ nextToken = 0
  /\ now = 0
  /\ inflight = [p \in Procs |-> <<>>]
  /\ used = {}
  /\ workspaces = <<>>
  /\ memberships = {}
  /\ projects = <<>>
  /\ permissions = {}
  /\ environments = <<>>
  /\ ciRuns = <<>>
  /\ repoLinks = {}
  /\ apiTokens = <<>>
  /\ last = Idle

\* what a client may present: nothing, a token that was issued to some client
\* (current or stale), or a value that was never issued (<<"rt", 0>>, <<"st", 0>>)
RefreshTokens == {<<>>} \cup {<<"rt", n>> : n \in 0..nextToken}
SessionTokens == {<<>>} \cup {<<"st", n>> : n \in 0..Len(sessions)}

\* (sessionToken, refreshToken) pairs presented to refresh and logout: either
\* one alone, or the first session's token together with an issued refresh
\* token (its own or another session's)
TokenPairs ==
  {tp \in SessionTokens \X RefreshTokens :
      tp[1] = <<>> \/ tp[2] = <<>> \/ (tp[1][2] = 1 /\ tp[2][2] > 0)}

SignupInputs == {<<"", "p">>, <<Emails[1], "">>, <<Emails[1], "p">>, <<Emails[2], "p">>}
LoginInputs  == SignupInputs \cup {<<Emails[1], "q">>}
AuthContexts == {NoContext}

\* request slots are interchangeable: r2 is taken only while r1 is busy
SlotFree(p) == inflight[p] = <<>> /\ (p = "r2" => inflight["r1"] # <<>>)

\* calls that overlap on different refresh tokens touch different rows and
\* commute, so the second slot takes a call presenting the token of the first
Overlaps(p, tp) == p = "r2" => inflight["r1"][1].args.refreshToken = tp[2]

\* a request is picked up once the previous response has been delivered
Ready == last = Idle

NextAuth ==
  \/ \E in \in SignupInputs, c \in AuthContexts : Ready /\ signup(in[1], in[2], c)
  \/ \E in \in LoginInputs, c \in AuthContexts : Ready /\ login(in[1], in[2], c)
  \/ \E p \in Procs, tp \in TokenPairs, c \in AuthContexts :
        Ready /\ SlotFree(p) /\ Overlaps(p, tp)
              /\ refreshLookup(p, tp[1], tp[2], c)
  \/ \E p \in Procs : Ready /\ refreshUpdate(p)
  \/ \E tp \in TokenPairs : Ready /\ logout(tp[1], tp[2])
  \/ Ready /\ Tick
  \/ Deliver

SpecAuth == Init /\ [][NextAuth]_vars

----------------------------------------------------------------------------
(* Workspace roles: the store after the three users of Emails have signed up *)

signedUp(i) ==
  [id |-> i, email |-> Emails[i], passwordHash |-> hashPassword("p")]

signupSession(i) ==
  [id               |-> i,
   userId           |-> i,
   sessionToken     |-> <<"st", i>>,
   refreshTokenHash |-> hashToken(<<"rt", i>>),
   userAgent        |-> "",
   ipAddress        |-> "",
   expiresAt        |-> REFRESH_TOKEN_TTL_DAYS,
   revokedAt        |-> <<>>]

InitRoles ==
  /\ users = [i \in DOMAIN Emails |-> signedUp(i)]
  /\ sessions = [i \in DOMAIN Emails |-> signupSession(i)]
  /\ nextToken = Len(Emails)
  /\ now = 0
  /\ inflight = [p \in Procs |-> <<>>]
  /\ used = {}
  /\ workspaces = <<>>
  /\ memberships = {}
  /\ projects = <<>>
  /\ permissions = {}
  /\ environments = <<>>
  /\ ciRuns = <<>>
  /\ repoLinks = {}
  /\ apiTokens = <<>>
  /\ last = Idle

\* authenticated callers (req.user.sub)
UserIds == {u.id : u \in Range(users)}

\* workspace ids a request may name: every existing one and one that does not exist
WorkspaceIds == 1..(Len(workspaces) + 1)

\* createWorkspace requests: (caller, name, slug)
CreateInputs ==
  {<<u, "Acme", "acme">> : u \in UserIds}
    \cup {<<2, "Beta", "beta">>, <<1, "", "acme">>, <<1, "Acme", "">>}

RoleInputs == Roles \cup {"", "SUPERUSER"}

\* inviteMember requests on the first workspace: (workspaceId, email, role);
\* one request names a workspace that does not exist
InviteInputs ==
  {<<1, e, r>> : e \in Range(Emails), r \in RoleInputs}
    \cup {<<1, e, r>> : e \in {"", "dev@x.com"}, r \in {"", "OWNER"}}
    \cup {<<Len(workspaces) + 1, Emails[1], "VIEWER">>}

\* setWorkspaceRole requests on the first workspace: (workspaceId, target, role)
SetRoleInputs ==
  {<<1, t, r>> : t \in UserIds, r \in RoleInputs}
    \cup {<<1, 0, "VIEWER">>, <<Len(workspaces) + 1, 1, "VIEWER">>}

NextRoles ==
  \/ \E in \in CreateInputs : Ready /\ createWorkspace(in[1], in[2], in[3])
  \/ \E u \in UserIds, w \in WorkspaceIds, r \in Roles :
        Ready /\ checkWorkspaceRole(u, w, r)
  \/ \E u \in UserIds, in \in InviteInputs :
        Ready /\ inviteMember(u, in[1], in[2], in[3])
  \/ \E u \in UserIds, in \in SetRoleInputs :
        Ready /\ setWorkspaceRole(u, in[1], in[2], in[3])
  \/ Deliver

SpecRoles == InitRoles /\ [][NextRoles]_vars

----------------------------------------------------------------------------
(* Workspaces and their slugs *)

TextBody(name, slug) == [name |-> name, slug |-> slug]

\* createWorkspace requests: (caller, name, slug)
WorkspaceInputs ==
  {<<u, "Acme", "acme">> : u \in {1, 2}}
    \cup {<<2, "Beta", "beta">>, <<1, "", "acme">>, <<1, "Acme", "">>}

\* updateWorkspace requests: (caller, workspaceId, body)
UpdateWorkspaceInputs ==
  {<<u, w, TextBody(<<>>, slug)>> :
     u \in {1, 2}, w \in WorkspaceIds, slug \in {<<"acme">>, <<"beta">>, <<"">>}}
    \cup {<<1, 1, TextBody(<<"New">>, <<>>)>>}

NextWs ==
  \/ \E in \in WorkspaceInputs :
        Ready /\ Len(workspaces) < MaxWorkspaces
              /\ createWorkspace(in[1], in[2], in[3])
  \/ \E in \in UpdateWorkspaceInputs : Ready /\ updateWorkspace(in[1], in[2], in[3])
  \/ Deliver

SpecWs == InitRoles /\ [][NextWs]_vars

----------------------------------------------------------------------------
(* Projects and project permissions, on two workspaces with their members *)

\* user 1 created "acme" and invited user 2 as ADMIN and user 3 as DEVELOPER;
\* user 2 created "beta"
InitPerm ==
  /\ users = [i \in DOMAIN Emails |-> signedUp(i)]
  /\ sessions = [i \in DOMAIN Emails |-> signupSession(i)]
  /\ nextToken = Len(Emails)
  /\ now = 0
  /\ inflight = [p \in Procs |-> <<>>]
  /\ used = {}
  /\ workspaces = <<[id |-> 1, name |-> "Acme", slug |-> "acme",
                     description |-> "", ownerId |-> 1],
                    [id |-> 2, name |-> "Beta", slug |-> "beta",
                     description |-> "", ownerId |-> 2]>>
  /\ memberships = {[userId |-> 1, workspaceId |-> 1, role |-> "OWNER"],
                    [userId |-> 2, workspaceId |-> 1, role |-> "ADMIN"],
                    [userId |-> 3, workspaceId |-> 1, role |-> "DEVELOPER"],
                    [userId |-> 2, workspaceId |-> 2, role |-> "OWNER"]}
  /\ projects = <<>>
  /\ permissions = {}
  /\ environments = <<>>
  /\ ciRuns = <<>>
  /\ repoLinks = {}
  /\ apiTokens = <<>>
  /\ last = Idle

\* createProject requests: (caller, workspaceId, name, slug)
ProjectInputs ==
  {<<u, 1, "Api", "api">> : u \in UserIds}
    \cup {<<2, 2, "Api", "api">>, <<1, 1, "", "api">>, <<1, 3, "Api", "api">>}

\* project ids a request may name: every existing one and one that does not exist
ProjectIds == 1..(Len(projects) + 1)

Body(userId, canRead, canWrite, canExecute, canAdmin) ==
  [userId |-> userId, canRead |-> canRead, canWrite |-> canWrite,
   canExecute |-> canExecute, canAdmin |-> canAdmin]

FlagInputs ==
  {<<<<>>, <<>>, <<>>, <<>>>>,
   <<<<FALSE>>, <<TRUE>>, <<>>, <<>>>>,
   <<<<FALSE>>, <<FALSE>>, <<FALSE>>, <<TRUE>>>>,
   <<<<FALSE>>, <<FALSE>>, <<FALSE>>, <<FALSE>>>>}

\* setProjectPermission bodies: defaults, write only, admin only and nothing
\* at all for user 3; nothing at all for user 2; an absent and an unknown target
PermissionBodies ==
  {Body(3, f[1], f[2], f[3], f[4]) : f \in FlagInputs}
    \cup {Body(2, <<FALSE>>, <<FALSE>>, <<FALSE>>, <<FALSE>>),
          Body(0, <<>>, <<>>, <<>>, <<>>), Body(9, <<>>, <<>>, <<>>, <<>>)}

\* setProjectPermission requests: (caller, workspaceId, projectId, body), on
\* the first workspace, and by its owner and by a non-member on the second
SetPermissionInputs ==
  {<<u, 1, p, body>> : u \in UserIds, p \in ProjectIds, body \in PermissionBodies}
    \cup {<<u, 2, p, Body(3, <<>>, <<>>, <<>>, f)>> :
            u \in {2, 3}, p \in ProjectIds, f \in {<<>>, <<TRUE>>}}

\* requireProjectPermission requests: (caller, workspaceId, projectId, required)
EnforceInputs ==
  {<<u, w, p, c>> : u \in UserIds, w \in {1, 2}, p \in ProjectIds,
                    c \in Capabilities \cup {"deploy", "constructor", "__proto__"}}
    \cup {<<0, 1, 1, "read">>, <<1, 0, 1, "read">>, <<1, 1, 0, "read">>,
          <<1, 3, 1, "read">>}

NextPerm ==
  \/ \E in \in ProjectInputs :
        Ready /\ createProject(in[1], in[2], in[3], in[4])
  \/ \E u \in UserIds, w \in {1, 2}, p \in ProjectIds :
        Ready /\ getProjectPermissions(u, w, p)
  \/ \E in \in SetPermissionInputs :
        Ready /\ setProjectPermission(in[1], in[2], in[3], in[4])
  \/ \E in \in EnforceInputs :
        Ready /\ requireProjectPermission(in[1], in[2], in[3], in[4])
  \/ Deliver

SpecPerm == InitPerm /\ [][NextPerm]_vars

----------------------------------------------------------------------------
(* Project-scoped resources of two tenants *)

Project(id, workspaceId, name, slug) ==
  [id |-> id, workspaceId |-> workspaceId, name |-> name, slug |-> slug,
   description |-> "", defaultBranch |-> "", deleted |-> FALSE]

\* user 1 created "acme", invited user 2 as MAINTAINER and user 3 as VIEWER and
\* created the projects "api" and "web"; user 2 created "beta" and its project
\* "api" in between
InitTenant ==
  /\ users = [i \in DOMAIN Emails |-> signedUp(i)]
  /\ sessions = [i \in DOMAIN Emails |-> signupSession(i)]
  /\ nextToken = Len(Emails)
  /\ now = 0
  /\ inflight = [p \in Procs |-> <<>>]
  /\ used = {}
  /\ workspaces = <<[id |-> 1, name |-> "Acme", slug |-> "acme",
                     description |-> "", ownerId |-> 1],
                    [id |-> 2, name |-> "Beta", slug |-> "beta",
                     description |-> "", ownerId |-> 2]>>
  /\ memberships = {[userId |-> 1, workspaceId |-> 1, role |-> "OWNER"],
                    [userId |-> 2, workspaceId |-> 1, role |-> "MAINTAINER"],
                    [userId |-> 3, workspaceId |-> 1, role |-> "VIEWER"],
                    [userId |-> 2, workspaceId |-> 2, role |-> "OWNER"]}
  /\ projects = <<Project(1, 1, "Api", "api"), Project(2, 2, "Api", "api"),
                  Project(3, 1, "Web", "web")>>
  /\ permissions = {}
  /\ environments = <<>>
  /\ ciRuns = <<>>
  /\ repoLinks = {}
  /\ apiTokens = <<>>
  /\ last = Idle

EnvBody(name, type) == [name |-> name, type |-> type]

\* updateProject requests: (caller, workspaceId, projectId, body): renames of
\* a project of workspace 1, of a project of workspace 2 and of a project that
\* does not exist, a slug that is taken, and a caller below MAINTAINER
UpdateProjectInputs ==
  {<<1, 1, p, TextBody(<<"New">>, <<>>)>> : p \in {1, 2, 4}}
    \cup {<<1, 1, p, TextBody(<<>>, <<"web">>)>> : p \in {1, 2}}
    \cup {<<3, 1, 1, TextBody(<<"New">>, <<>>)>>}

\* deleteProject requests: (caller, workspaceId, projectId)
DeleteProjectInputs ==
  {<<1, 1, 2>>, <<1, 1, 3>>, <<2, 1, 1>>, <<2, 2, 2>>}

\* createEnvironment requests: (caller, workspaceId, projectId, name, type)
CreateEnvironmentInputs ==
  {<<2, 2, 2, "prod", "k8s">>, <<1, 1, 2, "prod", "k8s">>,
   <<1, 1, 2, "staging", "k8s">>, <<3, 1, 1, "prod", "k8s">>,
   <<1, 1, 1, "", "k8s">>}

\* createCiRun requests: (caller, workspaceId, projectId, environmentId, status)
CreateCiRunInputs ==
  {<<1, 1, p, 0, "success">> : p \in {1, 2}}
    \cup {<<2, 2, 2, 0, "failed">>, <<1, 1, 1, 1, "success">>,
          <<1, 1, 1, 0, "">>, <<3, 1, 1, 0, "success">>}

\* linkRepoToProject requests: (caller, workspaceId, projectId, repoOwner, repoName)
LinkInputs ==
  {<<1, 1, p, "org", "repo">> : p \in {1, 2}}
    \cup {<<2, 2, 2, "org", "repo">>, <<1, 1, 1, "", "repo">>,
          <<3, 1, 1, "org", "repo">>}

\* setProjectPermission requests: (caller, workspaceId, projectId, body)
GrantInputs ==
  {<<1, 1, 2, Body(3, <<>>, <<TRUE>>, <<>>, <<>>)>>,
   <<2, 2, 2, Body(3, <<>>, <<>>, <<>>, <<>>)>>}

\* reads of workspace 1: (caller, projectId)
ReadInputs == {1, 3} \X {1, 2}

NextTenant ==
  \/ \E in \in UpdateProjectInputs :
        Ready /\ updateProject(in[1], in[2], in[3], in[4])
  \/ \E in \in DeleteProjectInputs :
        Ready /\ deleteProject(in[1], in[2], in[3])
  \/ \E in \in CreateEnvironmentInputs :
        Ready /\ createEnvironment(in[1], in[2], in[3], in[4], in[5])
  \/ \E in \in CreateCiRunInputs :
        Ready /\ Len(ciRuns) < MaxRuns
              /\ createCiRun(in[1], in[2], in[3], in[4], in[5])
  \/ \E in \in LinkInputs :
        Ready /\ linkRepoToProject(in[1], in[2], in[3], in[4], in[5])
  \/ \E in \in GrantInputs :
        Ready /\ setProjectPermission(in[1], in[2], in[3], in[4])
  \/ \E in \in ReadInputs : Ready /\ getProject(in[1], 1, in[2])
  \/ \E in \in ReadInputs : Ready /\ listEnvironments(in[1], 1, in[2])
  \/ \E in \in ReadInputs : Ready /\ listCiRuns(in[1], 1, in[2])
  \/ \E in \in ReadInputs, r \in 1..Len(ciRuns) :
        Ready /\ getCiRun(in[1], 1, in[2], r)
  \/ \E in \in ReadInputs : Ready /\ getLatestCiStatus(in[1], 1, in[2])
  \/ Deliver

SpecTenant == InitTenant /\ [][NextTenant]_vars

----------------------------------------------------------------------------
(* Environments of the two projects of workspace 1 and the project of
   workspace 2 *)

MaxEnvs == 3

EnvNames == {"prod", "stage"}

\* createEnvironment requests: (caller, workspaceId, projectId, name, type);
\* user 1 on the projects of workspace 1, user 2 on the project of workspace 2
EnvCreateInputs ==
  {<<1, 1, p, n, "k8s">> : p \in {1, 3}, n \in EnvNames}
    \cup {<<2, 2, 2, "prod", "k8s">>, <<3, 1, 1, "prod", "k8s">>}

\* updateEnvironment requests: (caller, workspaceId, projectId, environmentId,
\* body): renames, among them to the empty string, and a change of type
EnvUpdateInputs ==
  {<<1, 1, p, e, EnvBody(<<n>>, <<>>)>> :
     p \in {1, 3}, e \in 1..Len(environments), n \in EnvNames \cup {""}}
    \cup {<<1, 1, 1, 1, EnvBody(<<>>, <<"vm">>)>>}

NextEnv ==
  \/ \E in \in EnvCreateInputs :
        Ready /\ Len(environments) < MaxEnvs
              /\ createEnvironment(in[1], in[2], in[3], in[4], in[5])
  \/ \E in \in EnvUpdateInputs :
        Ready /\ updateEnvironment(in[1], in[2], in[3], in[4], in[5])
  \/ Deliver

SpecEnv == InitTenant /\ [][NextEnv]_vars

----------------------------------------------------------------------------
(* Check-then-create calls that overlap: each call awaits its findUnique and
   then its create, and another call may run between the two *)

\* the call in slot p has passed its existence check and awaits its create
Passed(p, op, args, ctx) ==
  /\ inflight' = [inflight EXCEPT ![p] = <<[op |-> op, args |-> args, context |-> ctx]>>]
  /\ Respond(op, 0, args, [passed |-> TRUE])

Awaits(p, op) == inflight[p] # <<>> /\ inflight[p][1].op = op

Done(p) == inflight' = [inflight EXCEPT ![p] = <<>>]

\* a create refused by a unique constraint: a Prisma error without status
UniqueConstraintFailed(p, op) ==
  /\ Respond(op, 500, inflight[p][1].args, Fail(500, "Unique constraint failed"))
  /\ Done(p)
  /\ UNCHANGED <<users, sessions, nextToken, now, used, wsVars, projVars, apiTokens>>

\* the unique constraint on user.email refuses the row
userEmailTaken(row) == \E u \in Range(users) : u.id # row.id /\ u.email = row.email

\* signup up to and including prisma.user.findUnique({where: {email}})
signupFind(p, email, password, ctx) ==
  LET args == [email |-> email, password |-> password] IN
  /\ inflight[p] = <<>>
  /\ IF email = "" \/ password = "" THEN
       /\ Respond("signup", 400, args, NoRet)
       /\ UNCHANGED <<authVars, wsVars, projVars>>
     ELSE IF findUserByEmail(email) # {} THEN
       /\ Respond("signup", 409, args, NoRet)
       /\ UNCHANGED <<authVars, wsVars, projVars>>
     ELSE
       /\ Passed(p, "signup", args, ctx)
       /\ UNCHANGED <<users, sessions, nextToken, now, used, wsVars, projVars, apiTokens>>

\* signup from prisma.user.create on
signupCreate(p) ==
  /\ Awaits(p, "signup")
  /\ LET call == inflight[p][1]
         user == [id |-> Len(users) + 1, email |-> call.args.email,
                  passwordHash |-> hashPassword(call.args.password)]
     IN  IF userEmailTaken(user) THEN UniqueConstraintFailed(p, "signup")
         ELSE
           /\ Len(users) < MaxUsers
           /\ Len(sessions) < MaxSessions
           /\ nextToken < MaxTokens
           /\ users' = Append(users, user)
           /\ createSessionForUser(user.id, call.context)
           /\ Done(p)
           /\ Respond("signup", 201, call.args,
                      [user         |-> publicUser(user),
                       accessToken  |-> signAccessToken(user),
                       refreshToken |-> createRefreshTokenPair.refreshToken,
                       sessionId    |-> Len(sessions) + 1])
           /\ UNCHANGED <<now, used, wsVars, projVars, apiTokens>>

\* createWorkspace up to and including prisma.workspace.findUnique({where: {slug}})
createWorkspaceFind(p, userId, name, slug) ==
  LET args == [userId |-> userId, name |-> name, slug |-> slug] IN
  /\ inflight[p] = <<>>
  /\ IF name = "" \/ slug = "" THEN
       /\ Respond("createWorkspace", 400, args, Fail(400, "name and slug are required"))
       /\ UNCHANGED <<authVars, wsVars, projVars>>
     ELSE IF findWorkspaceBySlug(slug) # {} THEN
       /\ Respond("createWorkspace", 409, args, Fail(409, "Workspace slug already exists"))
       /\ UNCHANGED <<authVars, wsVars, projVars>>
     ELSE
       /\ Passed(p, "createWorkspace", args, NoContext)
       /\ UNCHANGED <<users, sessions, nextToken, now, used, wsVars, projVars, apiTokens>>

\* createWorkspace from prisma.$transaction on
createWorkspaceCreate(p) ==
  /\ Awaits(p, "createWorkspace")
  /\ LET call == inflight[p][1]
         ws   == newWorkspace(call.args.userId, call.args.name, call.args.slug)
     IN  IF workspaceSlugTaken(ws) THEN UniqueConstraintFailed(p, "createWorkspace")
         ELSE
           /\ Done(p)
           /\ UNCHANGED <<users, sessions, nextToken, now, used, projVars, apiTokens>>
           /\ \/ /\ committed(ws, call.args.userId)
                 /\ Respond("createWorkspace", 201, call.args,
                            [status |-> 201, workspace |-> ws])
              \/ /\ rolledBack(ws, call.args.userId)
                 /\ Respond("createWorkspace", 500, call.args,
                            Fail(500, "Transaction failed"))

\* createProject up to and including prisma.project.findUnique({where: {workspaceId_slug}})
createProjectFind(p, userId, workspaceId, name, slug) ==
  LET args   == [userId |-> userId, workspaceId |-> workspaceId,
                 name |-> name, slug |-> slug]
      acting == requireWorkspaceRole(userId, workspaceId, "MAINTAINER")
  IN
  /\ inflight[p] = <<>>
  /\ IF acting.status # 200 THEN
       /\ Respond("createProject", acting.status, args, acting)
       /\ UNCHANGED <<authVars, wsVars, projVars>>
     ELSE IF name = "" \/ slug = "" THEN
       /\ Respond("createProject", 400, args, Fail(400, "name and slug are required"))
       /\ UNCHANGED <<authVars, wsVars, projVars>>
     ELSE IF findProjectBySlug(workspaceId, slug) # {} THEN
       /\ Respond("createProject", 409, args,
                  Fail(409, "Project slug already exists in this workspace"))
       /\ UNCHANGED <<authVars, wsVars, projVars>>
     ELSE
       /\ Passed(p, "createProject", args, NoContext)
       /\ UNCHANGED <<users, sessions, nextToken, now, used, wsVars, projVars, apiTokens>>

\* createProject from prisma.project.create on
createProjectCreate(p) ==
  /\ Awaits(p, "createProject")
  /\ LET call    == inflight[p][1]
         project == [id |-> Len(projects) + 1, workspaceId |-> call.args.workspaceId,
                     name |-> call.args.name, slug |-> call.args.slug,
                     description |-> "", defaultBranch |-> "", deleted |-> FALSE]
     IN  IF projectSlugTaken(project) THEN UniqueConstraintFailed(p, "createProject")
         ELSE
           /\ projects' = Append(projects, project)
           /\ Done(p)
           /\ Respond("createProject", 201, call.args,
                      [status |-> 201, project |-> project])
           /\ UNCHANGED <<users, sessions, nextToken, now, used, wsVars,
                          permissions, resVars, apiTokens>>

\* createEnvironment up to and including
\* prisma.environment.findUnique({where: {projectId_name}})
createEnvironmentFind(p, userId, workspaceId, projectId, name, type) ==
  LET args   == [userId |-> userId, workspaceId |-> workspaceId,
                 projectId |-> projectId, name |-> name, type |-> type]
      acting == requireWorkspaceRole(userId, workspaceId, "MAINTAINER")
  IN
  /\ inflight[p] = <<>>
  /\ IF acting.status # 200 THEN
       /\ Respond("createEnvironment", acting.status, args, acting)
       /\ UNCHANGED <<authVars, wsVars, projVars>>
     ELSE IF name = "" \/ type = "" THEN
       /\ Respond("createEnvironment", 400, args, Fail(400, "name and type are required"))
       /\ UNCHANGED <<authVars, wsVars, projVars>>
     ELSE IF findProject(projectId, workspaceId) = {} THEN
       /\ Respond("createEnvironment", 404, args, Fail(404, "Project not found"))
       /\ UNCHANGED <<authVars, wsVars, projVars>>
     ELSE IF findEnvironmentByName(projectId, name) # {} THEN
       /\ Respond("createEnvironment", 409, args,
                  Fail(409, "Environment name already exists for this project"))
       /\ UNCHANGED <<authVars, wsVars, projVars>>
     ELSE
       /\ Passed(p, "createEnvironment", args, NoContext)
       /\ UNCHANGED <<users, sessions, nextToken, now, used, wsVars, projVars, apiTokens>>

\* createEnvironment from prisma.environment.create on
createEnvironmentCreate(p) ==
  /\ Awaits(p, "createEnvironment")
  /\ LET call        == inflight[p][1]
         environment == [id |-> Len(environments) + 1,
                         projectId |-> call.args.projectId,
                         name |-> call.args.name, type |-> call.args.type,
                         deleted |-> FALSE]
     IN  IF environmentNameTaken(environment)
         THEN UniqueConstraintFailed(p, "createEnvironment")
         ELSE
           /\ environments' = Append(environments, environment)
           /\ Done(p)
           /\ Respond("createEnvironment", 201, call.args,
                      [status |-> 201, environment |-> environment])
           /\ UNCHANGED <<users, sessions, nextToken, now, used, wsVars,
                          projects, permissions, ciRuns, repoLinks, apiTokens>>

\* the second slot takes a call of the operation the first slot is in
SameCall(p, op) == p = "r2" => inflight["r1"][1].op = op

\* one request of each kind, by a user who has signed up
NextRace ==
  \/ \E p \in Procs, c \in AuthContexts :
        Ready /\ SlotFree(p) /\ SameCall(p, "signup")
              /\ signupFind(p, Emails[1], "p", c)
  \/ \E p \in Procs : Ready /\ signupCreate(p)
  \/ \E p \in Procs, u \in UserIds :
        Ready /\ SlotFree(p) /\ SameCall(p, "createWorkspace")
              /\ createWorkspaceFind(p, u, "Acme", "acme")
  \/ \E p \in Procs : Ready /\ createWorkspaceCreate(p)
  \/ \E p \in Procs, u \in UserIds :
        Ready /\ SlotFree(p) /\ SameCall(p, "createProject")
              /\ createProjectFind(p, u, 1, "Api", "api")
  \/ \E p \in Procs : Ready /\ createProjectCreate(p)
  \/ \E p \in Procs, u \in UserIds :
        Ready /\ SlotFree(p) /\ SameCall(p, "createEnvironment")
              /\ createEnvironmentFind(p, u, 1, 1, "prod", "k8s")
  \/ \E p \in Procs : Ready /\ createEnvironmentCreate(p)
  \/ Deliver

SpecRace == Init /\ [][NextRace]_vars

----------------------------------------------------------------------------
(* Invitations: user 1 has signed up and created "acme"; the owner of
   Emails[2] signs up later *)

InitInvite ==
  /\ users = <<signedUp(1)>>
  /\ sessions = <<signupSession(1)>>
  /\ nextToken = 1
  /\ now = 0
  /\ inflight = [p \in Procs |-> <<>>]
  /\ used = {}
  /\ workspaces = <<[id |-> 1, name |-> "Acme", slug |-> "acme",
                     description |-> "", ownerId |-> 1]>>
  /\ memberships = {[userId |-> 1, workspaceId |-> 1, role |-> "OWNER"]}
  /\ projects = <<>>
  /\ permissions = {}
  /\ environments = <<>>
  /\ ciRuns = <<>>
  /\ repoLinks = {}
  /\ apiTokens = <<>>
  /\ last = Idle

\* inviteMember requests: (workspaceId, email, role)
InvitationInputs ==
  {<<1, e, r>> : e \in {Emails[1], Emails[2]}, r \in RoleInputs}
    \cup {<<1, "", "VIEWER">>, <<2, Emails[2], "VIEWER">>}

NextInvite ==
  \/ \E u \in UserIds, in \in InvitationInputs :
        Ready /\ inviteMember(u, in[1], in[2], in[3])
  \/ \E c \in AuthContexts : Ready /\ signup(Emails[2], "p", c)
  \/ Deliver

SpecInvite == InitInvite /\ [][NextInvite]_vars

----------------------------------------------------------------------------
(* GitHub links and webhooks of the projects of InitTenant.  Project 3 may
   start with a link whose webhookSecret was stored with the row; the links
   that linkRepoToProject creates have none *)

Link(projectId, repoOwner, repoName, webhookSecret) ==
  [projectId |-> projectId, repoOwner |-> repoOwner, repoName |-> repoName,
   webhookSecret |-> webhookSecret]

InitHook ==
  /\ users = [i \in DOMAIN Emails |-> signedUp(i)]
  /\ sessions = [i \in DOMAIN Emails |-> signupSession(i)]
  /\ nextToken = Len(Emails)
  /\ now = 0
  /\ inflight = [p \in Procs |-> <<>>]
  /\ used = {}
  /\ workspaces = <<[id |-> 1, name |-> "Acme", slug |-> "acme",
                     description |-> "", ownerId |-> 1],
                    [id |-> 2, name |-> "Beta", slug |-> "beta",
                     description |-> "", ownerId |-> 2]>>
  /\ memberships = {[userId |-> 1, workspaceId |-> 1, role |-> "OWNER"],
                    [userId |-> 2, workspaceId |-> 1, role |-> "MAINTAINER"],
                    [userId |-> 3, workspaceId |-> 1, role |-> "VIEWER"],
                    [userId |-> 2, workspaceId |-> 2, role |-> "OWNER"]}
  /\ projects = <<Project(1, 1, "Api", "api"), Project(2, 2, "Api", "api"),
                  Project(3, 1, "Web", "web")>>
  /\ permissions = {}
  /\ environments = <<>>
  /\ ciRuns = <<>>
  /\ repoLinks \in {{}, {Link(3, "org", "web", "k1")}}
  /\ apiTokens = <<>>
  /\ last = Idle

\* linkRepoToProject requests: (caller, workspaceId, projectId, repoOwner, repoName)
HookLinkInputs ==
  {<<1, 1, p, "org", r>> : p \in {1, 3}, r \in {"api", "web"}}
    \cup {<<2, 2, 2, "org", "api">>, <<3, 1, 1, "org", "api">>}

\* unlinkRepoFromProject requests: (caller, workspaceId, projectId)
UnlinkInputs == {<<1, 1, 1>>, <<1, 1, 3>>, <<1, 1, 2>>, <<3, 1, 1>>}

\* request bodies as received: empty, {}, { } and {a}
Bodies == {<<>>, <<"{", "}">>, <<"{", " ", "}">>, <<"{", "a", "}">>}

Secrets == {"k1", "k2"}

\* X-Hub-Signature-256 values: not sent, the digest of a body under a secret,
\* a digest cut short, a digest with a byte appended, and a digest under a
\* different prefix
Signatures ==
  LET digests == {digestOf(k, b) : k \in Secrets, b \in Bodies} IN
  {<<>>} \cup digests
    \cup {SubSeq(digestOf("k1", <<>>), 1, 3), digestOf("k1", <<>>) \o <<"0">>,
          <<"sha1=">> \o hex(HmacSha256("k1", <<>>))}

\* process.env.GITHUB_WEBHOOK_SECRET: unset, or one of the secrets
EnvSecrets == {"", "k2"}

NextHook ==
  \/ \E in \in HookLinkInputs :
        Ready /\ linkRepoToProject(in[1], in[2], in[3], in[4], in[5])
  \/ \E in \in UnlinkInputs : Ready /\ unlinkRepoFromProject(in[1], in[2], in[3])
  \/ \E p \in {1, 3}, b \in Bodies, h \in Signatures, env \in EnvSecrets :
        Ready /\ handleWebhook(1, p, b, h, env)
  \/ \E p \in {1, 3}, b \in Bodies, h \in Signatures, env \in EnvSecrets :
        Ready /\ webhook(1, p, b, h, env)
  \/ Deliver

SpecHook == InitHook /\ [][NextHook]_vars

----------------------------------------------------------------------------
(* API tokens of the three users of InitRoles *)

\* callers: two users and an unauthenticated request
TokenCallers == {0, 1, 2}

\* token ids a request may name: none, every id issued so far and one that
\* was never issued
TokenIds == 0..(Len(apiTokens) + 1)

NextTokens ==
  \/ \E u \in TokenCallers, n \in {"", "ci"} :
        Ready /\ Len(apiTokens) < MaxApiTokens /\ createApiToken(u, n)
  \/ \E u \in TokenCallers : Ready /\ listApiTokens(u)
  \/ \E u \in TokenCallers, t \in TokenIds : Ready /\ revokeApiToken(u, t)
  \/ Deliver

SpecTokens == InitRoles /\ [][NextTokens]_vars

----------------------------------------------------------------------------
(* Sessions of one user: the session of the signup and, in some initial
   states, a second one from a later login on a device "ua0" *)

loginSession ==
  [id               |-> 2,
   userId           |-> 1,
   sessionToken     |-> <<"st", 2>>,
   refreshTokenHash |-> hashToken(<<"rt", 2>>),
   userAgent        |-> "ua0",
   ipAddress        |-> "ip0",
   expiresAt        |-> REFRESH_TOKEN_TTL_DAYS,
   revokedAt        |-> <<>>]

InitSessions ==
  /\ users = <<signedUp(1)>>
  /\ sessions \in {<<signupSession(1)>>, <<signupSession(1), loginSession>>}
  /\ nextToken = Len(sessions)
  /\ now = 0
  /\ inflight = [p \in Procs |-> <<>>]
  /\ used = {}
  /\ workspaces = <<>>
  /\ memberships = {}
  /\ projects = <<>>
  /\ permissions = {}
  /\ environments = <<>>
  /\ ciRuns = <<>>
  /\ repoLinks = {}
  /\ apiTokens = <<>>
  /\ last = Idle

NextSessions ==
  \/ \E p \in Procs, tp \in TokenPairs, c \in Contexts :
        Ready /\ SlotFree(p) /\ Overlaps(p, tp)
              /\ refreshLookup(p, tp[1], tp[2], c)
  \/ \E p \in Procs : Ready /\ refreshUpdate(p)
  \/ \E tp \in TokenPairs : Ready /\ logout(tp[1], tp[2])
  \/ Deliver

SpecSessions == InitSessions /\ [][NextSessions]_vars

----------------------------------------------------------------------------
(* setWorkspaceRole step by step: the call suspends at each await, after the
   guard, after the lookup of the target and before the update, and other
   requests run in between *)

\* validation and `const acting = await requireWorkspaceRole(...)`
setWorkspaceRoleGuard(p, currentUserId, workspaceId, userId, role) ==
  LET args   == [userId |-> currentUserId, workspaceId |-> workspaceId,
                 targetUserId |-> userId, role |-> role]
      acting == requireWorkspaceRole(currentUserId, workspaceId, "ADMIN")
  IN
  /\ inflight[p] = <<>>
  /\ IF userId = 0 \/ role = "" THEN
       /\ Respond("setWorkspaceRole", 400, args, Fail(400, "userId and role are required"))
       /\ UNCHANGED <<authVars, wsVars, projVars>>
     ELSE IF ~isRole(role) THEN
       /\ Respond("setWorkspaceRole", 400, args, Fail(400, "invalid role"))
       /\ UNCHANGED <<authVars, wsVars, projVars>>
     ELSE IF acting.status # 200 THEN
       /\ Respond("setWorkspaceRole", acting.status, args, acting)
       /\ UNCHANGED <<authVars, wsVars, projVars>>
     ELSE
       /\ Passed(p, "setWorkspaceRoleTarget", args, [acting |-> acting.membership])
       /\ UNCHANGED <<users, sessions, nextToken, now, used, wsVars, projVars, apiTokens>>

\* `const target = await prisma.membership.findUnique(...)` and the OWNER
\* test, made with the acting membership read by the guard
setWorkspaceRoleTarget(p) ==
  /\ Awaits(p, "setWorkspaceRoleTarget")
  /\ LET call   == inflight[p][1]
         args   == call.args
         acting == call.context.acting
         found  == findMembership(args.targetUserId, args.workspaceId)
     IN
     IF found = {} THEN
       /\ Respond("setWorkspaceRole", 404, args, Fail(404, "Target membership not found"))
       /\ Done(p)
       /\ UNCHANGED <<users, sessions, nextToken, now, used, wsVars, projVars, apiTokens>>
     ELSE
       \E target \in found :
         IF ownerTransition(args.role, target) /\ acting.role # "OWNER" THEN
           /\ Respond("setWorkspaceRole", 403, args,
                      Fail(403, "Forbidden: only OWNER can change OWNER roles"))
           /\ Done(p)
           /\ UNCHANGED <<users, sessions, nextToken, now, used, wsVars, projVars, apiTokens>>
         ELSE
           /\ Passed(p, "setWorkspaceRoleUpdate", args,
                     [acting |-> acting, target |-> target])
           /\ UNCHANGED <<users, sessions, nextToken, now, used, wsVars, projVars, apiTokens>>

\* `await prisma.membership.update({where: ..., data: {role}})`
setWorkspaceRoleUpdate(p) ==
  /\ Awaits(p, "setWorkspaceRoleUpdate")
  /\ LET args == inflight[p][1].args IN
       /\ memberships' = withRole(args.targetUserId, args.workspaceId, args.role)
       /\ Respond("setWorkspaceRole", 200, args,
                  [status |-> 200,
                   membership |-> [userId |-> args.targetUserId,
                                   workspaceId |-> args.workspaceId,
                                   role |-> args.role]])
       /\ Done(p)
       /\ UNCHANGED <<users, sessions, nextToken, now, used, workspaces, projVars, apiTokens>>

\* a workspace of three: its OWNER, an ADMIN and a DEVELOPER
InitRoleRace ==
  /\ users = [i \in DOMAIN Emails |-> signedUp(i)]
  /\ sessions = [i \in DOMAIN Emails |-> signupSession(i)]
  /\ nextToken = Len(Emails)
  /\ now = 0
  /\ inflight = [p \in Procs |-> <<>>]
  /\ used = {}
  /\ workspaces = <<[id |-> 1, name |-> "Acme", slug |-> "acme",
                     description |-> "", ownerId |-> 1]>>
  /\ memberships = {[userId |-> 1, workspaceId |-> 1, role |-> "OWNER"],
                    [userId |-> 2, workspaceId |-> 1, role |-> "ADMIN"],
                    [userId |-> 3, workspaceId |-> 1, role |-> "DEVELOPER"]}
  /\ projects = <<>>
  /\ permissions = {}
  /\ environments = <<>>
  /\ ciRuns = <<>>
  /\ repoLinks = {}
  /\ apiTokens = <<>>
  /\ last = Idle

\* the roles the requests of the race ask for
RaceRoles == {"OWNER", "ADMIN", "VIEWER"}

\* requests by the OWNER and the ADMIN on the ADMIN and the DEVELOPER
NextRoleRace ==
  \/ \E p \in Procs, u \in {1, 2}, t \in {2, 3}, r \in RaceRoles \cup {""} :
        Ready /\ SlotFree(p) /\ setWorkspaceRoleGuard(p, u, 1, t, r)
  \/ \E p \in Procs : Ready /\ setWorkspaceRoleTarget(p)
  \/ \E p \in Procs : Ready /\ setWorkspaceRoleUpdate(p)
  \/ \E u \in {1, 2}, t \in {2, 3}, r \in RaceRoles :
        Ready /\ inviteMember(u, 1, Emails[t], r)
  \/ Deliver

SpecRoleRace == InitRoleRace /\ [][NextRoleRace]_vars

----------------------------------------------------------------------------
(* Step classification, read off `last'`, which every operation sets *)

\* the step is the first half of a refresh call (validation + findFirst)
IsRefreshLookupStep ==
  \/ last'.op = "refreshFound"
  \/ last'.op = "refresh" /\ last'.status # 200

\* the step is the second half of a refresh call: it answers with new tokens
IsRefreshSuccessStep == last'.op = "refresh" /\ last'.status = 200

\* the sessions whose stored hash is the hash of `refreshToken`
hashMatches(refreshToken) ==
  {s \in Range(sessions) : s.refreshTokenHash = hashToken(refreshToken)}

----------------------------------------------------------------------------
(* C1 *)

\* no refresh token with which a refresh has succeeded matches an active session
UsedTokensMatchNoActiveSession ==
  \A t \in used : \A s \in hashMatches(t) : ~isActive(s)

\* a refresh call that starts after a refresh succeeded with the token it
\* presents is answered 401 with no tokens, whether or not it names a session
LaterRefreshWithUsedTokenFails ==
  (IsRefreshLookupStep /\ last'.args.refreshToken \in used)
    => /\ last'.op = "refresh"
       /\ last'.status = 401
       /\ last'.ret = NoRet
       /\ UNCHANGED <<sessions, inflight>>

\* C1: refresh tokens are single-use. Once a refresh has succeeded with token
\* T, the hash of T matches no active session, and every refresh call made
\* afterwards that presents T (with or without a sessionToken) fails with 401
\* and returns no tokens.
C1_RefreshTokenSingleUse ==
  /\ []UsedTokensMatchNoActiveSession
  /\ [][LaterRefreshWithUsedTokenFails]_vars

\* a used token was presented again, with a session token, while the session
\* it once belonged to is still active, and the call was answered 401
C1_Witness ==
  /\ last.op = "refresh"
  /\ last.status = 401
  /\ last.args.refreshToken \in used
  /\ last.args.sessionToken # <<>>
  /\ \E s \in Range(sessions) : s.sessionToken = last.args.sessionToken /\ isActive(s)

----------------------------------------------------------------------------
(* C2 *)

\* C2: of two concurrent refresh calls presenting the same refresh token for
\* the same session at most one rotates and returns tokens: no refresh ever
\* succeeds with a token with which a refresh has already succeeded.
C2_AtMostOneConcurrentRotation ==
  [][IsRefreshSuccessStep => last'.args.refreshToken \notin used]_vars

----------------------------------------------------------------------------
(* C3 *)

\* the rows a refresh call looks at: hash match, narrowed by the session token
refreshMatches(sessionToken, refreshToken) ==
  {s \in hashMatches(refreshToken) :
      sessionToken # <<>> => s.sessionToken = sessionToken}

\* a lookup that proceeds holds a row that, at lookup time, matched the hash,
\* was not revoked and expired strictly in the future
FoundOnlyValidSession ==
  last'.op = "refreshFound" =>
    \E p \in Procs :
      /\ inflight[p] = <<>>
      /\ inflight'[p] # <<>>
      /\ \E s \in refreshMatches(last'.args.sessionToken, last'.args.refreshToken) :
            /\ s.id = inflight'[p][1].session.id
            /\ s.revokedAt = <<>>
            /\ s.expiresAt > now

\* a lookup whose matching rows are all revoked or expired is answered 401
\* and changes no session
RevokedOrExpiredRejected ==
  LET m == refreshMatches(last'.args.sessionToken, last'.args.refreshToken) IN
  (IsRefreshLookupStep /\ m # {}
     /\ \A s \in m : s.revokedAt # <<>> \/ s.expiresAt <= now)
    => /\ last'.op = "refresh"
       /\ last'.status = 401
       /\ last'.ret = NoRet
       /\ UNCHANGED <<sessions, inflight>>

\* a refresh answers with tokens only for a call whose lookup went through
SuccessOnlyAfterFound ==
  IsRefreshSuccessStep =>
    \E p \in Procs : inflight[p] # <<>> /\ inflight'[p] = <<>>
                      /\ inflight[p][1].args = last'.args

\* C3: refresh succeeds only if the session matched by the token hash has
\* revokedAt = null and expiresAt strictly in the future at lookup time; for a
\* revoked or expired session it fails with 401 and leaves the session's hash,
\* expiry and revokedAt unchanged.
C3_RefreshNeedsValidSession ==
  [][FoundOnlyValidSession /\ RevokedOrExpiredRejected /\ SuccessOnlyAfterFound]_vars

\* a refresh was answered 401 for a non-revoked session whose expiry is
\* exactly now (not strictly in the future)
C3_Witness ==
  /\ last.op = "refresh"
  /\ last.status = 401
  /\ \E s \in hashMatches(last.args.refreshToken) :
        s.revokedAt = <<>> /\ s.expiresAt = now

----------------------------------------------------------------------------
(* C4 *)

\* the step is a signup call with a non-empty, unused email and a password
IsValidSignupStep ==
  /\ last'.op = "signup"
  /\ last'.args.email # ""
  /\ last'.args.password # ""
  /\ findUserByEmail(last'.args.email) = {}

\* C4: a signup with a non-empty email not yet in use and a non-empty password
\* creates exactly one user and exactly one session; the session's stored
\* refreshTokenHash is SHA-256 of the refresh token returned to the caller and
\* the returned access token's subject is the id of the created user.
C4_SignupCreatesUserAndSession ==
  [][IsValidSignupStep =>
       /\ last'.status = 201
       /\ Len(users') = Len(users) + 1
       /\ SubSeq(users', 1, Len(users)) = users
       /\ Len(sessions') = Len(sessions) + 1
       /\ SubSeq(sessions', 1, Len(sessions)) = sessions
       /\ LET user    == users'[Len(users')]
              session == sessions'[Len(sessions')]
          IN  /\ user.email = last'.args.email
              /\ user.id \notin {u.id : u \in Range(users)}
              /\ session.userId = user.id
              /\ session.id = last'.ret.sessionId
              /\ session.refreshTokenHash = hashToken(last'.ret.refreshToken)
              /\ {s \in Range(sessions') :
                    s.refreshTokenHash = hashToken(last'.ret.refreshToken)} = {session}
              /\ last'.ret.accessToken.sub = user.id
              /\ last'.ret.user.id = user.id]_vars

\* a second user has signed up while the first user's session exists
C4_Witness ==
  /\ last.op = "signup"
  /\ last.status = 201
  /\ Len(users) = 2
  /\ Len(sessions) = 2
  /\ last.ret.accessToken.sub = 2

----------------------------------------------------------------------------
(* C5 *)

\* the sessions a logout call selects
logoutSelects(args) ==
  {s \in Range(sessions) :
      matchesWhere(s, logoutWhere(args.sessionToken, args.refreshToken))}

IsLogoutStep ==
  /\ last'.op = "logout"
  /\ ~(last'.args.sessionToken = <<>> /\ last'.args.refreshToken = <<>>)

\* a logout answers success, leaves every already-revoked session as it is
\* and leaves its selection revoked; when everything it selects was already
\* revoked it changes nothing at all
LogoutIsIdempotent ==
  IsLogoutStep =>
    /\ last'.status = 200
    /\ last'.ret = [success |-> TRUE]
    /\ Len(sessions') = Len(sessions)
    /\ \A i \in DOMAIN sessions :
          sessions[i].revokedAt # <<>> => sessions'[i] = sessions[i]
    /\ ((\A s \in logoutSelects(last'.args) : s.revokedAt # <<>>)
          => UNCHANGED <<users, sessions, nextToken, now, inflight, used>>)

\* right after a logout, repeating it selects only revoked sessions
AfterLogoutSelectionIsRevoked ==
  (last.op = "logout" /\ last.status = 200)
    => \A s \in logoutSelects(last.args) : s.revokedAt # <<>>

\* C5: session revocation is idempotent. A logout on an already-revoked
\* session returns success, does not change its revokedAt, and leaves the
\* store as the single logout left it.
C5_LogoutIdempotent ==
  /\ []AfterLogoutSelectionIsRevoked
  /\ [][LogoutIsIdempotent]_vars

\* a logout by session token was answered success for a session that had
\* been revoked at an earlier time
C5_Witness ==
  /\ last.op = "logout"
  /\ last.status = 200
  /\ last.args.sessionToken # <<>>
  /\ \E s \in Range(sessions) :
        /\ s.sessionToken = last.args.sessionToken
        /\ s.revokedAt # <<>>
        /\ s.revokedAt[1] < now

----------------------------------------------------------------------------
(* C6, C7 *)

\* the hierarchy as the specification states it
Rank(role) ==
  CASE role = "OWNER"      -> 5
    [] role = "ADMIN"      -> 4
    [] role = "MAINTAINER" -> 3
    [] role = "DEVELOPER"  -> 2
    [] role = "VIEWER"     -> 1

IsRoleCheck == last.op = "requireWorkspaceRole"

\* C6: for an existing workspace and a member whose role is a,
\* requireWorkspaceRole(user, workspace, b) succeeds, returning the membership,
\* if and only if rank(a) >= rank(b), with OWNER(5) > ADMIN(4) > MAINTAINER(3)
\* > DEVELOPER(2) > VIEWER(1), for all 25 pairs (a, b).
C6_RequireRoleIffRankAtLeast ==
  (IsRoleCheck /\ findWorkspaceById(last.args.workspaceId) # {})
    => \A m \in findMembership(last.args.userId, last.args.workspaceId) :
         /\ (last.status = 200) <=> (Rank(m.role) >= Rank(last.args.role))
         /\ (last.status = 200) => (last.ret.membership = m)

\* a DEVELOPER passed a check that requires DEVELOPER (equal ranks), while a
\* second workspace exists
C6_Witness ==
  /\ IsRoleCheck
  /\ last.status = 200
  /\ last.args.role = "DEVELOPER"
  /\ last.ret.membership.role = "DEVELOPER"
  /\ Len(workspaces) = 2

\* the failure the guard reports, in the order the specification gives
RoleCheckClassified ==
  IsRoleCheck =>
    LET found == findMembership(last.args.userId, last.args.workspaceId) IN
    IF findWorkspaceById(last.args.workspaceId) = {} THEN
      last.status = 404 /\ last.ret.error = "Workspace not found"
    ELSE IF found = {} THEN
      last.status = 403 /\ last.ret.error = "Forbidden: not a workspace member"
    ELSE
      \A m \in found :
        Rank(m.role) < Rank(last.args.role)
          => last.status = 403 /\ last.ret.error = "Forbidden: insufficient role"

----------------------------------------------------------------------------
(* C8 *)

\* the step is a well-formed setWorkspaceRole call by a member `am` on a
\* member `tm` of an existing workspace
SetRoleOutcome(am, tm) ==
  LET a             == last'.args
      ownerInvolved == a.role = "OWNER" \/ tm.role = "OWNER"
      applied       ==
        /\ last'.status = 200
        /\ memberships' = (memberships \ {tm}) \cup {[tm EXCEPT !.role = a.role]}
      refused       ==
        /\ last'.status = 403
        /\ memberships' = memberships
  IN  /\ (am.role = "ADMIN" /\ ownerInvolved) => refused
      /\ (am.role = "OWNER" /\ ownerInvolved) => applied
      /\ (am.role = "ADMIN" /\ ~ownerInvolved) => applied

\* C8: setWorkspaceRole with a new role of OWNER, or on a target membership
\* whose current role is OWNER, fails with 403 and leaves the target
\* membership unchanged when the acting principal's role is ADMIN, and succeeds
\* when it is OWNER; an ADMIN can change any member between the four
\* non-OWNER roles.
C8_OwnerTransitionsNeedOwner ==
  [][(last'.op = "setWorkspaceRole" /\ last'.args.role \in Roles)
       => \A am \in findMembership(last'.args.userId, last'.args.workspaceId),
             tm \in findMembership(last'.args.targetUserId, last'.args.workspaceId) :
            SetRoleOutcome(am, tm)]_vars

\* an ADMIN tried to demote an OWNER to a non-OWNER role and was answered 403
C8_Witness ==
  /\ last.op = "setWorkspaceRole"
  /\ last.status = 403
  /\ last.args.role \in Roles \ {"OWNER"}
  /\ \E am \in findMembership(last.args.userId, last.args.workspaceId) :
        am.role = "ADMIN"
  /\ \E tm \in findMembership(last.args.targetUserId, last.args.workspaceId) :
        tm.role = "OWNER"

----------------------------------------------------------------------------
(* C9 *)

\* the role of user u in workspace w according to the rows ms ("" when none)
roleIn(ms, u, w) ==
  LET found == {m \in ms : m.userId = u /\ m.workspaceId = w}
  IN  IF found = {} THEN "" ELSE (CHOOSE m \in found : TRUE).role

\* C9: over every sequence of createWorkspace, inviteMember and
\* setWorkspaceRole calls, a membership of an existing workspace changes to
\* OWNER or away from OWNER (or is added as OWNER) only through a call whose
\* acting principal holds OWNER in that workspace at that time.
C9_OwnerChangesOnlyByOwner ==
  [][last'.op \in {"createWorkspace", "inviteMember", "setWorkspaceRole"}
       => \A w \in Range(workspaces), u \in UserIds :
            LET before == roleIn(memberships, u, w.id)
                after  == roleIn(memberships', u, w.id)
            IN  (before # after /\ (before = "OWNER" \/ after = "OWNER"))
                  => roleIn(memberships, last'.args.userId, w.id) = "OWNER"]_vars

----------------------------------------------------------------------------
(* C10 *)

\* C10: enforceProjectPermission authorizes, for every required capability in
\* {read, write, execute, admin}, a principal whose workspace role is ADMIN or
\* OWNER on any project of that workspace, even when the principal has no
\* Permission row for the project or a row with all four flags false.
C10_WorkspaceAdminsAuthorized ==
  (/\ last.op = "requireProjectPermission"
   /\ last.args.required \in Capabilities
   /\ findProject(last.args.projectId, last.args.workspaceId) # {}
   /\ roleIn(memberships, last.args.userId, last.args.workspaceId)
        \in {"ADMIN", "OWNER"})
    => last.status = 200

----------------------------------------------------------------------------
(* C11 *)

IsEnforce == last.op = "requireProjectPermission"

\* the request names a user, an existing workspace and a project of it
EnforceOnProjectOf(role) ==
  /\ IsEnforce
  /\ findProject(last.args.projectId, last.args.workspaceId) # {}
  /\ roleIn(memberships, last.args.userId, last.args.workspaceId) = role

\* the decision the specification reads off the row
Granted(required, row) ==
  CASE required = "read"    -> \E p \in row : p.canRead \/ p.canAdmin
    [] required = "write"   -> \E p \in row : p.canWrite \/ p.canAdmin
    [] required = "execute" -> \E p \in row : p.canExecute \/ p.canAdmin
    [] required = "admin"   -> \E p \in row : p.canAdmin
    [] OTHER                -> FALSE

\* C11: for a workspace member below ADMIN, enforceProjectPermission grants
\* read iff canRead or canAdmin, write iff canWrite or canAdmin, execute iff
\* canExecute or canAdmin, admin iff canAdmin; a missing row or an unknown
\* capability name denies with FORBIDDEN (403).
C11_RowDecidesBelowAdmin ==
  \A role \in {"MAINTAINER", "DEVELOPER", "VIEWER"} :
    EnforceOnProjectOf(role) =>
      IF Granted(last.args.required,
                 findPermission(last.args.userId, last.args.projectId))
      THEN last.status = 200
      ELSE last.status = 403

\* the same statement for the four capabilities and for a name that `checks`
\* neither defines nor inherits
C11_RowDecidesKnownNames ==
  (IsEnforce /\ last.args.required \in Capabilities \cup {"deploy"})
    => C11_RowDecidesBelowAdmin

----------------------------------------------------------------------------
(* C12 *)

PermissionOps ==
  {"requireProjectPermission", "getProjectPermissions", "setProjectPermission"}

\* the response `r` answers a user who is not a member of the existing
\* workspace it names, about a project of that workspace
ToNonMember(r) ==
  /\ r.op \in PermissionOps
  /\ findUserById(r.args.userId) # {}
  /\ findWorkspaceById(r.args.workspaceId) # {}
  /\ findMembership(r.args.userId, r.args.workspaceId) = {}
  /\ findProject(r.args.projectId, r.args.workspaceId) # {}

\* C12: a user with no membership in workspace W is rejected by
\* enforceProjectPermission, getProjectPermissions and setProjectPermission
\* for every project of W, even when the user holds a Permission row with
\* canAdmin = true on the project; the rejection changes no state.  (The
\* rejection is 403, or 400 for a setProjectPermission body without a userId.)
C12_MembershipBeforeBothTiers ==
  [][ToNonMember(last')
       => /\ \/ last'.status = 403
             \/ /\ last'.status = 400
                /\ last'.op = "setProjectPermission"
                /\ last'.args.body.userId = 0
          /\ UNCHANGED <<authVars, wsVars, projVars>>]_vars

\* a non-member holding canAdmin on the project was refused a permission write
C12_Witness ==
  /\ ToNonMember(last)
  /\ last.op = "setProjectPermission"
  /\ last.status = 403
  /\ \E perm \in findPermission(last.args.userId, last.args.projectId) :
       perm.canAdmin

----------------------------------------------------------------------------
(* C13 *)

\* the two tiers as the specification states them, for user u on project p of
\* workspace w
Elevated(u, w, p) ==
  \/ roleIn(memberships, u, w) \in {"ADMIN", "OWNER"}
  \/ \E perm \in permissions :
       perm.userId = u /\ perm.projectId = p /\ perm.canAdmin

\* the response `r` answers a member of workspace W about a project of W
ToMember(r) ==
  /\ r.op \in {"getProjectPermissions", "setProjectPermission"}
  /\ findMembership(r.args.userId, r.args.workspaceId) # {}
  /\ findProject(r.args.projectId, r.args.workspaceId) # {}

PermissionDecision(r) ==
  LET elevated == Elevated(r.args.userId, r.args.workspaceId, r.args.projectId)
  IN  IF r.op = "getProjectPermissions" THEN
        /\ elevated => r.status = 200
        /\ ~elevated => r.status = 403
      ELSE
        r.args.body.userId # 0 =>
          /\ elevated =>
               r.status = IF findUserById(r.args.body.userId) # {} THEN 200 ELSE 404
          /\ ~elevated => r.status = 403 /\ permissions' = permissions

\* C13: for a caller who is a member of workspace W and a project P of W,
\* getProjectPermissions and setProjectPermission (with a body naming an
\* existing target user) succeed if and only if the caller's workspace role is
\* ADMIN or above or the caller's own Permission row on P has canAdmin = true;
\* otherwise they fail with 403 and setProjectPermission creates or changes no
\* Permission row.
C13_TwoTierAdministration ==
  [][ToMember(last') => PermissionDecision(last')]_vars

\* a DEVELOPER whose own row has canAdmin changed the permissions of a project
C13_Witness ==
  /\ ToMember(last)
  /\ last.op = "setProjectPermission"
  /\ last.status = 200
  /\ roleIn(memberships, last.args.userId, last.args.workspaceId) = "DEVELOPER"
  /\ last.args.body.canWrite = <<TRUE>>

----------------------------------------------------------------------------
(* C14 *)

\* the project-scoped mutating operations and the role each one requires
RequiredRole ==
  [updateProject        |-> "MAINTAINER",
   deleteProject        |-> "ADMIN",
   createEnvironment    |-> "MAINTAINER",
   createCiRun          |-> "MAINTAINER",
   linkRepoToProject    |-> "MAINTAINER",
   setProjectPermission |-> "VIEWER"]

\* the project exists and belongs to another workspace than w
OutsideWorkspace(projectId, w) ==
  \E p \in Live(projects) : p.id = projectId /\ p.workspaceId # w

\* the response `r` answers a member of workspace W who named a project that
\* belongs to another workspace
CrossTenantWrite(r) ==
  /\ r.op \in DOMAIN RequiredRole
  /\ findMembership(r.args.userId, r.args.workspaceId) # {}
  /\ OutsideWorkspace(r.args.projectId, r.args.workspaceId)

\* NOT_FOUND once the caller's role passes the operation's own role guard
\* (403 below it), and nothing is written
RefusedUnchanged(r) ==
  /\ IF Rank(roleIn(memberships, r.args.userId, r.args.workspaceId))
          >= Rank(RequiredRole[r.op])
     THEN r.status = 404
     ELSE r.status = 403
  /\ UNCHANGED projVars

\* C14: every project-scoped mutating operation (updateProject, deleteProject,
\* createEnvironment, createCiRun, linkRepoToProject, setProjectPermission)
\* invoked with workspace W and a project P that does not belong to W fails
\* NOT_FOUND (404) and leaves P and everything under it unchanged, whatever
\* role the caller holds in W.
C14_CrossTenantWritesRefused ==
  [][CrossTenantWrite(last') => RefusedUnchanged(last')]_vars

\* the same statement for the five operations other than updateProject
C14_ExceptUpdateProject ==
  [][(CrossTenantWrite(last') /\ last'.op # "updateProject")
       => RefusedUnchanged(last')]_vars

----------------------------------------------------------------------------
(* C15 *)

ProjectReads ==
  {"getProject", "listEnvironments", "listCiRuns", "getCiRun", "getLatestCiStatus"}

\* the response answers a member of workspace W who named a project that
\* belongs to another workspace; reads leave the store as it was
CrossTenantRead ==
  /\ last.op \in ProjectReads
  /\ findMembership(last.args.userId, last.args.workspaceId) # {}
  /\ OutsideWorkspace(last.args.projectId, last.args.workspaceId)

\* C15: every project-scoped read (getProject, listEnvironments, listCiRuns,
\* getCiRun, getLatestCiStatus) invoked with workspace W and a project P that
\* does not belong to W returns NOT_FOUND (404) and never returns a record
\* belonging to P; in particular getLatestCiStatus called by a VIEWER of W
\* never returns a CI run of a project outside W.
C15_CrossTenantReadsRefused ==
  CrossTenantRead => last.status = 404

\* the same statement for the four reads other than getLatestCiStatus
C15_ExceptLatestCiStatus ==
  (CrossTenantRead /\ last.op # "getLatestCiStatus") => last.status = 404

\* a VIEWER of workspace W was handed a CI run of a project outside W
C15_ViewerReadsForeignRun ==
  /\ CrossTenantRead
  /\ roleIn(memberships, last.args.userId, last.args.workspaceId) = "VIEWER"
  /\ last.status = 200
  /\ \E run \in last.ret.latest : run.projectId = last.args.projectId

----------------------------------------------------------------------------
(* C16 *)

SlugsUnique ==
  \A a, b \in Range(workspaces) : a.slug = b.slug => a.id = b.id

\* a well-formed createWorkspace whose slug is already used
CreateWithUsedSlug(r) ==
  /\ r.op = "createWorkspace"
  /\ r.args.name # "" /\ r.args.slug # ""
  /\ \E w \in Range(workspaces) : w.slug = r.args.slug

\* an updateWorkspace by an ADMIN or OWNER to a slug that a different
\* workspace uses
UpdateToUsedSlug(r) ==
  /\ r.op = "updateWorkspace"
  /\ roleIn(memberships, r.args.userId, r.args.workspaceId) \in {"ADMIN", "OWNER"}
  /\ r.args.body.slug # <<>>
  /\ \E w \in Range(workspaces) :
       w.slug = r.args.body.slug[1] /\ w.id # r.args.workspaceId

\* C16: workspace slugs stay unique over every sequence of createWorkspace and
\* updateWorkspace calls: a createWorkspace whose slug is already used fails
\* CONFLICT (409) and creates neither a workspace nor a membership, and an
\* updateWorkspace to a slug used by a different workspace fails CONFLICT (409)
\* and changes nothing.
C16_WorkspaceSlugsUnique ==
  /\ []SlugsUnique
  /\ [][(CreateWithUsedSlug(last') \/ UpdateToUsedSlug(last'))
          => (last'.status = 409 /\ UNCHANGED wsVars)]_vars

\* the same statement for slugs other than the empty string
C16_NonEmptySlugs ==
  /\ []SlugsUnique
  /\ [][(\/ CreateWithUsedSlug(last')
         \/ UpdateToUsedSlug(last') /\ last'.args.body.slug # <<"">>)
          => (last'.status = 409 /\ UNCHANGED wsVars)]_vars

----------------------------------------------------------------------------
(* C19 *)

OwnerMembership(w) ==
  [userId |-> w.ownerId, workspaceId |-> w.id, role |-> "OWNER"]

\* every workspace has the OWNER membership of its creator, and every
\* membership belongs to a workspace
WorkspaceWithOwner ==
  /\ \A w \in Range(workspaces) : OwnerMembership(w) \in memberships
  /\ \A m \in memberships : m.workspaceId \in DOMAIN workspaces

\* a createWorkspace step inserts both rows or neither
BothOrNeither ==
  \/ UNCHANGED wsVars
  \/ \E w \in Range(workspaces') :
       /\ w.ownerId = last'.args.userId
       /\ workspaces' = Append(workspaces, w)
       /\ memberships' = memberships \cup {OwnerMembership(w)}
       /\ OwnerMembership(w) \notin memberships

\* C19: createWorkspace is all-or-nothing: in every reachable state, also
\* after a failure between the workspace insert and the membership insert, a
\* workspace created by createWorkspace exists if and only if an OWNER
\* membership of its creator for that workspace was created with it; on
\* success the creator's role in the new workspace is OWNER.
C19_CreateWorkspaceAllOrNothing ==
  /\ []WorkspaceWithOwner
  /\ [][last'.op = "createWorkspace" =>
          /\ BothOrNeither
          /\ last'.status = 201 <=> ~UNCHANGED wsVars
          /\ last'.status = 201 =>
               roleIn(memberships', last'.args.userId, last'.ret.workspace.id)
                 = "OWNER"]_vars

\* a createWorkspace call failed inside the transaction while another
\* workspace and its owner exist
C19_Witness ==
  /\ last.op = "createWorkspace" /\ last.status = 500
  /\ Len(workspaces) = 1

\* a createWorkspace call succeeded
C19_Created ==
  /\ last.op = "createWorkspace" /\ last.status = 201
  /\ Len(workspaces) = 2

----------------------------------------------------------------------------
(* C17 *)

NamesUniquePerProject ==
  \A a, b \in Live(environments) :
    (a.projectId = b.projectId /\ a.name = b.name) => a.id = b.id

\* another environment than `environmentId` of the project has the name
NameUsedInProject(projectId, environmentId, name) ==
  \E e \in Live(environments) :
    e.id # environmentId /\ e.projectId = projectId /\ e.name = name

MaintainerOrAbove(r) ==
  /\ findMembership(r.args.userId, r.args.workspaceId) # {}
  /\ Rank(roleIn(memberships, r.args.userId, r.args.workspaceId)) >= Rank("MAINTAINER")

\* a well-formed createEnvironment on a project of the caller's workspace
CreatesEnvironment(r) ==
  /\ r.op = "createEnvironment"
  /\ MaintainerOrAbove(r)
  /\ r.args.name # "" /\ r.args.type # ""
  /\ findProject(r.args.projectId, r.args.workspaceId) # {}

\* an updateEnvironment of an existing environment that names a new name
RenamesEnvironment(r) ==
  /\ r.op = "updateEnvironment"
  /\ MaintainerOrAbove(r)
  /\ findEnvironment(r.args.environmentId, r.args.projectId, r.args.workspaceId) # {}
  /\ r.args.body.name # <<>>

\* the name the request asks for is used by another environment of the project
AsksUsedName(r) ==
  \/ CreatesEnvironment(r) /\ NameUsedInProject(r.args.projectId, 0, r.args.name)
  \/ /\ RenamesEnvironment(r)
     /\ NameUsedInProject(r.args.projectId, r.args.environmentId, r.args.body.name[1])

\* the name is free in the project, whatever other projects use
AsksFreeName(r) ==
  \/ CreatesEnvironment(r) /\ ~NameUsedInProject(r.args.projectId, 0, r.args.name)
  \/ /\ RenamesEnvironment(r)
     /\ ~NameUsedInProject(r.args.projectId, r.args.environmentId, r.args.body.name[1])

Accepted(r) ==
  /\ r.status \in {200, 201}
  /\ r.ret.environment = environments'[r.ret.environment.id]
  /\ r.ret.environment.projectId = r.args.projectId
  /\ r.ret.environment.name =
       (IF r.op = "createEnvironment" THEN r.args.name ELSE r.args.body.name[1])

\* C17: environment names are unique per project and only per project:
\* creating or renaming an environment to a name already used by another
\* environment of the same project fails CONFLICT (409) with no change, while
\* the same name under a different project is accepted.
C17_EnvironmentNamesPerProject ==
  /\ []NamesUniquePerProject
  /\ [][AsksUsedName(last') => (last'.status = 409 /\ UNCHANGED projVars)]_vars
  /\ [][AsksFreeName(last') => Accepted(last')]_vars

\* the same statement for renames to a non-empty name
C17_NonEmptyNames ==
  /\ []NamesUniquePerProject
  /\ [][(AsksUsedName(last') /\ ~(last'.op = "updateEnvironment"
                                     /\ last'.args.body.name = <<"">>))
          => (last'.status = 409 /\ UNCHANGED projVars)]_vars
  /\ [][AsksFreeName(last') => Accepted(last')]_vars

\* two projects each have an environment of the same name
C17_SameNameInTwoProjects ==
  \E a, b \in Live(environments) : a.projectId # b.projectId /\ a.name = b.name

----------------------------------------------------------------------------
(* C18 *)

CheckThenCreate == {"signup", "createWorkspace", "createProject", "createEnvironment"}

UniqueKeys ==
  /\ \A a, b \in Range(users) : a.email = b.email => a.id = b.id
  /\ \A a, b \in Range(workspaces) : a.slug = b.slug => a.id = b.id
  /\ \A a, b \in Live(projects) :
       (a.workspaceId = b.workspaceId /\ a.slug = b.slug) => a.id = b.id
  /\ \A a, b \in Live(environments) :
       (a.projectId = b.projectId /\ a.name = b.name) => a.id = b.id

\* the key of the call that awaits its create has been inserted since the
\* call's existence check
KeyTaken(call) ==
  CASE call.op = "signup" -> findUserByEmail(call.args.email) # {}
    [] call.op = "createWorkspace" -> findWorkspaceBySlug(call.args.slug) # {}
    [] call.op = "createProject" ->
         findProjectBySlug(call.args.workspaceId, call.args.slug) # {}
    [] call.op = "createEnvironment" ->
         findEnvironmentByName(call.args.projectId, call.args.name) # {}

\* this step answers a call that passed its check and then lost the race
LosesRace ==
  \E p \in Procs :
    /\ inflight[p] # <<>> /\ inflight'[p] = <<>>
    /\ inflight[p][1].op \in CheckThenCreate
    /\ KeyTaken(inflight[p][1])

\* C18: when two check-then-create operations for the same unique key (signup
\* with the same email, createWorkspace with the same slug, createProject with
\* the same workspace and slug, createEnvironment with the same project and
\* name) interleave so that both pass the existence check, the unique
\* constraint lets exactly one insert succeed and the other operation reports
\* a CONFLICT-class error (409), not an unclassified internal failure.
C18_RaceLoserGetsConflict ==
  /\ []UniqueKeys
  /\ [][LosesRace =>
          /\ last'.status = 409
          /\ UNCHANGED <<users, sessions, wsVars, projVars>>]_vars

\* what the code does: the second insert is refused and writes nothing, and
\* the call is answered 500
C18_RaceLoserGetsInternalError ==
  /\ []UniqueKeys
  /\ [][LosesRace =>
          /\ last'.status = 500
          /\ UNCHANGED <<users, sessions, wsVars, projVars>>]_vars

----------------------------------------------------------------------------
(* C20 *)

\* an inviteMember call by an ADMIN or OWNER with an email and a role that is
\* absent or a role name
InviteByAdmin(r) ==
  /\ r.op = "inviteMember"
  /\ roleIn(memberships, r.args.userId, r.args.workspaceId) \in {"ADMIN", "OWNER"}
  /\ r.args.email # ""
  /\ r.args.role \in Roles \cup {""}

GivenRole(r) == IF r.args.role = "" THEN "VIEWER" ELSE r.args.role

OfPair(ms, u, w) == {m \in ms : m.userId = u /\ m.workspaceId = w}

Invited(r) ==
  /\ r.status = 200 /\ r.ret.result = "invited"
  /\ UNCHANGED <<users, memberships>>

Added(r, u) ==
  /\ r.status = 200 /\ r.ret.result = "added"
  /\ OfPair(memberships', u, r.args.workspaceId)
       = {[userId |-> u, workspaceId |-> r.args.workspaceId, role |-> GivenRole(r)]}
  /\ memberships' \ OfPair(memberships', u, r.args.workspaceId)
       = memberships \ OfPair(memberships, u, r.args.workspaceId)
  /\ UNCHANGED users

\* a signup creates no membership, whatever invitations its email was sent
SignsUpAsNonMember(r) ==
  /\ UNCHANGED memberships
  /\ \A m \in memberships' : m.userId # r.ret.user.id

\* C20: inviteMember by an ADMIN-or-above caller: if no user has the given
\* email it returns status "invited" and creates no user and no membership (so
\* a user who signs up afterwards is not a member until invited again); if the
\* user exists it returns status "added" and afterwards exactly one membership
\* exists for (user, workspace) with the given role (default VIEWER), created
\* if absent and its role replaced if present.
C20_InviteMemberEffect ==
  [][/\ InviteByAdmin(last') =>
          IF findUserByEmail(last'.args.email) = {}
          THEN Invited(last')
          ELSE \E u \in findUserByEmail(last'.args.email) : Added(last', u.id)
     /\ (last'.op = "signup" /\ last'.status = 201) => SignsUpAsNonMember(last')
    ]_vars

\* the user who signed up after the invitations is added, and a second
\* invitation has replaced the role of the first
C20_Witness ==
  /\ last.op = "inviteMember" /\ last.ret = [status |-> 200, result |-> "added",
       membership |-> [userId |-> 2, workspaceId |-> 1, role |-> "DEVELOPER"]]
  /\ last.args.email = Emails[2]

\* an unknown email has been invited
C20_InvitedUnknown ==
  /\ last.op = "inviteMember" /\ last.status = 200 /\ last.ret.result = "invited"

----------------------------------------------------------------------------
(* C21 *)

\* the response answers a request for a project that has a link
ForLinkedProject(r) ==
  /\ r.op \in {"handleWebhook", "webhook"}
  /\ findLinkInWorkspace(r.args.projectId, r.args.workspaceId) # {}

LinkOf(r) ==
  CHOOSE l \in findLinkInWorkspace(r.args.projectId, r.args.workspaceId) : TRUE

\* the per-project secret if the link has one, else the process-wide one
EffectiveSecret(r) ==
  IF LinkOf(r).webhookSecret # "" THEN LinkOf(r).webhookSecret ELSE r.args.env

\* "sha256=" followed by the hex HMAC-SHA256 of b under s
ExpectedHeader(s, b) == <<"sha256=", "hex", s, b>>

\* C21: with a non-empty secret s, verifyGitHubSignature(s, b, h) returns
\* ok=true if and only if h equals "sha256=" followed by the hex HMAC-SHA256
\* of b under s; any change to b or to h (a missing header and a header of
\* different length included) yields ok=false without throwing, and
\* handleWebhook then fails with 401.
C21_SignatureVerifiedExactly ==
  (ForLinkedProject(last) /\ last.op = "handleWebhook" /\ EffectiveSecret(last) # "") =>
    LET s == EffectiveSecret(last)
        b == last.args.rawBody
        h == last.args.signatureHeader
        v == verifyGitHubSignature(s, b, h)
    IN  /\ v.ok \in BOOLEAN
        /\ v.ok <=> h = ExpectedHeader(s, b)
        /\ last.status = (IF v.ok THEN 200 ELSE 401)

\* a header shorter than the digest was refused
C21_Witness ==
  /\ ForLinkedProject(last) /\ last.op = "handleWebhook"
  /\ EffectiveSecret(last) # ""
  /\ Len(last.args.signatureHeader) = 3
  /\ last.status = 401

\* a request signed with the secret was accepted
C21_Accepted ==
  /\ ForLinkedProject(last) /\ last.op = "handleWebhook"
  /\ EffectiveSecret(last) # ""
  /\ last.status = 200

----------------------------------------------------------------------------
(* C22 *)

\* C22: when neither the project's link has a webhookSecret nor the
\* process-wide GITHUB_WEBHOOK_SECRET is set, handleWebhook accepts every
\* request for a linked project (ok=true with a reason) whatever the body and
\* signature header, a missing header included; when either secret is set, the
\* per-project secret takes precedence and an unsigned request is rejected.
C22_NoSecretAcceptsAll ==
  (ForLinkedProject(last) /\ last.op = "handleWebhook") =>
    LET link == LinkOf(last)
        env  == last.args.env
        b    == last.args.rawBody
        h    == last.args.signatureHeader
    IN  IF link.webhookSecret = "" /\ env = "" THEN
          /\ last.status = 200
          /\ verifyGitHubSignature("", b, h).ok
          /\ verifyGitHubSignature("", b, h).reason # ""
        ELSE
          /\ last.status = 200 <=>
               h = ExpectedHeader(IF link.webhookSecret # "" THEN link.webhookSecret
                                  ELSE env, b)
          /\ h = <<>> => last.status = 401

\* the link has a secret and the request is signed with the process-wide one
C22_Witness ==
  /\ ForLinkedProject(last) /\ last.op = "handleWebhook"
  /\ LinkOf(last).webhookSecret = "k1" /\ last.args.env = "k2"
  /\ last.args.signatureHeader = ExpectedHeader("k2", last.args.rawBody)
  /\ last.status = 401

\* no secret anywhere and no header: accepted
C22_UnsignedAccepted ==
  /\ ForLinkedProject(last) /\ last.op = "handleWebhook"
  /\ LinkOf(last).webhookSecret = "" /\ last.args.env = ""
  /\ last.args.signatureHeader = <<>>
  /\ last.status = 200

----------------------------------------------------------------------------
(* C23 *)

\* C23: for every webhook request, the byte sequence over which the HMAC is
\* computed is exactly the raw request body as received, never a
\* re-serialization of the parsed body; this holds for every body, an empty
\* one included.
C23_HmacOverRawBody ==
  (ForLinkedProject(last) /\ last.op = "webhook" /\ EffectiveSecret(last) # "") =>
    (last.status = 200 <=>
       last.args.signatureHeader = ExpectedHeader(EffectiveSecret(last), last.args.buf))

\* the same statement for bodies that are not empty
C23_NonEmptyBodies ==
  (ForLinkedProject(last) /\ last.op = "webhook" /\ EffectiveSecret(last) # ""
     /\ last.args.buf # <<>>) =>
    (last.status = 200 <=>
       last.args.signatureHeader = ExpectedHeader(EffectiveSecret(last), last.args.buf))

\* a request with white space in its body was accepted on the signature of
\* its bytes as received
C23_RawBytesSigned ==
  /\ ForLinkedProject(last) /\ last.op = "webhook"
  /\ last.args.buf = <<"{", " ", "}">>
  /\ EffectiveSecret(last) # "" /\ last.status = 200

----------------------------------------------------------------------------
(* C27 *)

LinksUnique ==
  \A a, b \in repoLinks :
    /\ a.projectId = b.projectId => a = b
    /\ (a.repoOwner = b.repoOwner /\ a.repoName = b.repoName) => a = b

\* a link or unlink call that passes the role check and names a project of
\* the workspace
OnOwnProject(r) ==
  /\ findMembership(r.args.userId, r.args.workspaceId) # {}
  /\ Rank(roleIn(memberships, r.args.userId, r.args.workspaceId)) >= Rank("MAINTAINER")
  /\ findProject(r.args.projectId, r.args.workspaceId) # {}

LinksRepo(r) ==
  /\ r.op = "linkRepoToProject" /\ OnOwnProject(r)
  /\ r.args.repoOwner # "" /\ r.args.repoName # ""

RepoLinkedElsewhere(r) ==
  \E l \in repoLinks :
    /\ l.repoOwner = r.args.repoOwner /\ l.repoName = r.args.repoName
    /\ l.projectId # r.args.projectId

\* the project's link, if any, is replaced by one to the named repo
LinkReplaced(r) ==
  /\ r.status = 200
  /\ \E l \in repoLinks' :
       /\ l.projectId = r.args.projectId
       /\ l.repoOwner = r.args.repoOwner /\ l.repoName = r.args.repoName
       /\ repoLinks' = {k \in repoLinks : k.projectId # r.args.projectId} \cup {l}

Unlinked(r) ==
  /\ r.status = 200
  /\ repoLinks' = {k \in repoLinks : k.projectId # r.args.projectId}

\* C27: after any sequence of linkRepoToProject and unlinkRepoFromProject
\* calls, each project has at most one GitHubRepoLink and no two links share
\* the same (repoOwner, repoName): linking a repo already linked to a different
\* project fails CONFLICT (409) with no change, linking on a project that
\* already has a link replaces that link, and unlinking a project with no link
\* succeeds as a no-op.
C27_OneLinkPerProjectAndRepo ==
  /\ []LinksUnique
  /\ [][LinksRepo(last') =>
          IF RepoLinkedElsewhere(last')
          THEN last'.status = 409 /\ UNCHANGED projVars
          ELSE LinkReplaced(last')]_vars
  /\ [][(last'.op = "unlinkRepoFromProject" /\ OnOwnProject(last')) =>
          Unlinked(last')]_vars

\* a project without a link has been unlinked
C27_Witness ==
  /\ last.op = "unlinkRepoFromProject" /\ last.status = 200
  /\ last.args.projectId = 1
  /\ \E l \in repoLinks : l.projectId = 3

\* a link to a repo that another project is linked to has been refused
C27_Refused ==
  /\ last.op = "linkRepoToProject" /\ last.status = 409

\* a project's link has been replaced by a link to another repo
C27_Replaced ==
  /\ last.op = "linkRepoToProject" /\ last.status = 200
  /\ last.args.projectId = 3 /\ last.args.repoName = "api"
  /\ Cardinality(repoLinks) = 1

----------------------------------------------------------------------------
(* C24 *)

\* a revoke of an existing token by an authenticated caller
RevokesExisting(r) ==
  /\ r.op = "revokeApiToken"
  /\ r.args.userId # 0 /\ r.args.tokenId # 0
  /\ \E t \in Range(apiTokens) : t.id = r.args.tokenId /\ ~t.deleted

RevokesDeleted(r) ==
  /\ r.op = "revokeApiToken"
  /\ r.args.userId # 0 /\ r.args.tokenId # 0
  /\ \E t \in Range(apiTokens) : t.id = r.args.tokenId /\ t.deleted

OwnerOf(tokenId) == apiTokens[tokenId].userId

\* only the row of tokenId is removed
Removed(tokenId) ==
  /\ apiTokens'[tokenId].deleted
  /\ \A i \in DOMAIN apiTokens : i # tokenId => apiTokens'[i] = apiTokens[i]
  /\ DOMAIN apiTokens' = DOMAIN apiTokens

\* C24: API tokens are deleted only by their owner: revokeApiToken by a user
\* other than the token's owner fails FORBIDDEN (403) and the token remains;
\* by the owner it hard-deletes the token, after which a second revoke of the
\* same id fails NOT_FOUND (404); listApiTokens returns only the caller's own
\* tokens.
C24_OwnerOnlyRevocation ==
  /\ [][RevokesExisting(last') =>
          IF OwnerOf(last'.args.tokenId) = last'.args.userId
          THEN last'.status = 200 /\ Removed(last'.args.tokenId)
          ELSE last'.status = 403 /\ UNCHANGED apiTokens]_vars
  /\ [][RevokesDeleted(last') => (last'.status = 404 /\ UNCHANGED apiTokens)]_vars
  /\ [][(\E i \in DOMAIN apiTokens : ~apiTokens[i].deleted /\ apiTokens'[i].deleted)
          => (last'.op = "revokeApiToken" /\ last'.status = 200)]_vars
  /\ []((last.op = "listApiTokens" /\ last.status = 200) =>
          last.ret.tokens =
            {[id |-> t.id, userId |-> t.userId, name |-> t.name] :
               t \in {r \in Range(apiTokens) :
                        ~r.deleted /\ r.userId = last.args.userId}})

\* another user's revoke was refused while the token exists
C24_Witness ==
  /\ last.op = "revokeApiToken" /\ last.status = 403
  /\ \E t \in Range(apiTokens) : ~t.deleted /\ t.id = last.args.tokenId

\* the owner's second revoke of the same id
C24_SecondRevoke ==
  /\ last.op = "revokeApiToken" /\ last.status = 404
  /\ \E t \in Range(apiTokens) :
       t.deleted /\ t.id = last.args.tokenId /\ t.userId = last.args.userId

\* a list that leaves out the tokens of another user
C24_ListOwnOnly ==
  /\ last.op = "listApiTokens" /\ last.status = 200 /\ last.ret.tokens # {}
  /\ \E t \in Range(apiTokens) : ~t.deleted /\ t.userId # last.args.userId

----------------------------------------------------------------------------
(* C25 *)

HasOwner(w) == \E m \in memberships : m.workspaceId = w.id /\ m.role = "OWNER"

\* C25: after any sequence of createWorkspace, inviteMember and
\* setWorkspaceRole calls, every existing workspace has at least one
\* membership with role OWNER.
C25_WorkspaceKeepsAnOwner == \A w \in Range(workspaces) : HasOwner(w)

\* a call other than one that changes the role of the last OWNER leaves the
\* workspace with an OWNER
C25_ExceptLastOwnerDemoted ==
  [][(\A w \in Range(workspaces) : HasOwner(w))
       => \A w \in Range(workspaces') :
            \/ \E m \in memberships' : m.workspaceId = w.id /\ m.role = "OWNER"
            \/ /\ last'.op \in {"inviteMember", "setWorkspaceRole"}
               /\ last'.status = 200
               /\ last'.args.workspaceId = w.id]_vars

----------------------------------------------------------------------------
(* C26 *)

\* the sessions the presented pair selects: by the hash of the refresh token,
\* narrowed by the session token when one is supplied
Presented(args) ==
  {t \in Range(sessions) :
     /\ t.refreshTokenHash = <<"sha256">> \o args.refreshToken
     /\ args.sessionToken # <<>> => t.sessionToken = args.sessionToken}

\* the refresh answered by this step rotates the row that the lookup of the
\* call in slot p matched, as the call asked
RotatesOnly(p) ==
  LET id     == inflight[p][1].session.id
      before == sessions[id]
      after  == sessions'[id]
      ctx    == inflight[p][1].context
  IN  /\ last'.ret.sessionId = id
      /\ DOMAIN sessions' = DOMAIN sessions
      /\ \A j \in DOMAIN sessions : j # id => sessions'[j] = sessions[j]
      /\ after.refreshTokenHash = <<"sha256">> \o last'.ret.refreshToken
      /\ after.refreshTokenHash # before.refreshTokenHash
      /\ after.expiresAt = now + 30
      /\ after.userAgent = (IF ctx.userAgent # "" THEN ctx.userAgent ELSE before.userAgent)
      /\ after.ipAddress = (IF ctx.ipAddress # "" THEN ctx.ipAddress ELSE before.ipAddress)
      /\ after.id = before.id /\ after.sessionToken = before.sessionToken
      /\ after.userId = before.userId /\ after.revokedAt = before.revokedAt

\* a lookup that suspends has matched a row the presented pair selects
MatchedAtLookup ==
  last'.op = "refreshFound" =>
    \E p \in Procs :
      /\ inflight[p] = <<>> /\ inflight'[p] # <<>>
      /\ sessions[inflight'[p][1].session.id] \in Presented(last'.args)

RefreshStep == last'.op \in {"refresh", "refreshFound"}

\* C26: a refresh call mutates exactly one session row, the one matched by
\* the presented token hash (narrowed by sessionToken when supplied): it
\* replaces that row's hash, sets its expiry to 30 days from now and keeps its
\* stored userAgent/ipAddress unless new values are supplied; every other
\* session, other sessions of the same user included, and the session's id,
\* sessionToken, userId and revokedAt are unchanged, and a failed refresh
\* mutates nothing.
C26_RefreshMutatesOneRow ==
  [][RefreshStep =>
       /\ MatchedAtLookup
       /\ IF last'.op = "refresh" /\ last'.status = 200
          THEN \E p \in Procs :
                 inflight[p] # <<>> /\ inflight'[p] = <<>> /\ RotatesOnly(p)
          ELSE UNCHANGED sessions]_vars

\* no other call has changed the metadata of the row since this call read it
MetadataAsRead(p) ==
  LET read == inflight[p][1].session
      row  == sessions[read.id]
  IN  row.userAgent = read.userAgent /\ row.ipAddress = read.ipAddress

\* the same statement for calls whose row has the metadata they read
C26_WhenMetadataAsRead ==
  [][RefreshStep =>
       /\ MatchedAtLookup
       /\ IF last'.op = "refresh" /\ last'.status = 200
          THEN \E p \in Procs :
                 /\ inflight[p] # <<>> /\ inflight'[p] = <<>>
                 /\ MetadataAsRead(p) => RotatesOnly(p)
          ELSE UNCHANGED sessions]_vars

\* a refresh without metadata has rotated one of the user's two sessions
C26_OneOfTwoRotated ==
  /\ last.op = "refresh" /\ last.status = 200
  /\ Len(sessions) = 2
  /\ sessions[last.ret.sessionId].userAgent = "ua0"

(* C28 *)

\* the rows a logout selects: by sessionToken alone when one is supplied,
\* else by the hash of the refresh token
SelectedByLogout(args) ==
  IF args.sessionToken # <<>>
  THEN {i \in DOMAIN sessions : sessions[i].sessionToken = args.sessionToken}
  ELSE {i \in DOMAIN sessions :
          sessions[i].refreshTokenHash = <<"sha256">> \o args.refreshToken}

\* the token pairs a refresh would accept in the given rows
Refreshable(rows) ==
  {<<t.sessionToken, t.refreshTokenHash>> :
     t \in {r \in Range(rows) : r.revokedAt = <<>> /\ r.expiresAt > now}}

LogoutWithSelector ==
  /\ last'.op = "logout"
  /\ last'.args.sessionToken # <<>> \/ last'.args.refreshToken # <<>>

\* C28: logout revokes only the selected sessions: by sessionToken alone when
\* one is supplied (the refreshToken is then ignored), otherwise by the hash
\* of the refreshToken; every other session stays as it was, non-revoked ones
\* can still refresh, and a logout that selects nothing answers success and
\* changes nothing.
C28_LogoutRevokesOnlySelected ==
  [][LogoutWithSelector =>
       LET sel == SelectedByLogout(last'.args) IN
       /\ last'.status = 200
       /\ last'.ret = [success |-> TRUE]
       /\ DOMAIN sessions' = DOMAIN sessions
       /\ \A i \in DOMAIN sessions :
            sessions'[i] =
              IF i \in sel /\ sessions[i].revokedAt = <<>>
              THEN [sessions[i] EXCEPT !.revokedAt = <<now>>]
              ELSE sessions[i]
       /\ Refreshable(sessions') =
            Refreshable(sessions) \ {<<sessions[i].sessionToken, sessions[i].refreshTokenHash>> : i \in sel}
       /\ sel = {} => UNCHANGED sessions]_vars

\* a logout with the session token of session 1 and the current refresh token
\* of session 2 has revoked session 1 and left session 2 alone
C28_Witness ==
  /\ last.op = "logout" /\ last.status = 200
  /\ last.args.sessionToken = <<"st", 1>>
  /\ Len(sessions) = 2
  /\ last.args.refreshToken # <<>>
  /\ hashToken(last.args.refreshToken) = sessions[2].refreshTokenHash
  /\ sessions[1].revokedAt # <<>>
  /\ sessions[2].revokedAt = <<>>

\* the other session refreshes after the logout of the first
C28_OtherStillRefreshes ==
  /\ last.op = "refresh" /\ last.status = 200
  /\ Len(sessions) = 2
  /\ last.ret.sessionId = 2
  /\ sessions[1].revokedAt # <<>>

\* a logout that matched no session answered success
C28_NoMatch ==
  /\ last.op = "logout" /\ last.status = 200
  /\ last.args.sessionToken = <<>>
  /\ \A i \in DOMAIN sessions :
       /\ sessions[i].refreshTokenHash # hashToken(last.args.refreshToken)
       /\ sessions[i].revokedAt = <<>>

(* C29 *)

\* a revocation is never undone
RevocationSticks ==
  \A i \in DOMAIN sessions :
    sessions[i].revokedAt # <<>> =>
      i \in DOMAIN sessions' /\ sessions'[i].revokedAt = sessions[i].revokedAt

\* the sessions that hold the hash of the presented refresh token
HoldingToken(refreshToken) ==
  {t \in Range(sessions) : t.refreshTokenHash = <<"sha256">> \o refreshToken}

\* a lookup made when every session holding the presented token is revoked
\* does not accept it
LookupAfterRevocationRejects ==
  /\ last'.op = "refreshFound" =>
       /\ \E t \in HoldingToken(last'.args.refreshToken) : t.revokedAt = <<>>
       /\ \E p \in Procs :
            /\ inflight[p] = <<>> /\ inflight'[p] # <<>>
            /\ sessions[inflight'[p][1].session.id].revokedAt = <<>>
  /\ (/\ last'.op = "refresh" /\ last'.status \in {400, 401}
      /\ \A t \in HoldingToken(last'.args.refreshToken) : t.revokedAt # <<>>)
       => UNCHANGED <<sessions, inflight>>

\* C29: under every interleaving of the steps of refresh and logout on the
\* same session, revokedAt once set is never reset to null, and no refresh
\* token of the session is accepted by a refresh whose lookup happens after
\* the revocation, the token returned by a refresh whose lookup preceded and
\* whose update followed the revocation included.
C29_RevocationSurvivesInterleaving ==
  [][RevocationSticks /\ LookupAfterRevocationRejects]_vars

\* a refresh whose lookup preceded the logout has rotated the revoked session
\* and returned a new refresh token
C29_Witness ==
  /\ last.op = "refresh" /\ last.status = 200
  /\ sessions[last.ret.sessionId].revokedAt # <<>>
  /\ sessions[last.ret.sessionId].refreshTokenHash = hashToken(last.ret.refreshToken)

\* a token issued by a rotation is presented for a revoked session and refused
C29_RotatedTokenRefused ==
  /\ last.op = "refresh" /\ last.status = 401
  /\ last.args.refreshToken # <<>>
  /\ last.args.refreshToken[2] > Len(sessions)
  /\ \E t \in HoldingToken(last.args.refreshToken) : t.revokedAt # <<>>

(* C30 *)

RoleNow(userId, workspaceId) ==
  {m.role : m \in findMembership(userId, workspaceId)}

\* the acting user may make this change, on the memberships given by the
\* roles of actor and target
MayChange(actorRoles, targetRoles, role) ==
  /\ \E a \in actorRoles : ROLE_ORDER[a] >= ROLE_ORDER["ADMIN"]
  /\ (role = "OWNER" \/ "OWNER" \in targetRoles) => actorRoles = {"OWNER"}

ChangeApplied == last'.op = "setWorkspaceRole" /\ last'.status = 200

\* C30: setWorkspaceRole applies a role change only if the acting user holds
\* the required role (ADMIN or above, and OWNER for a change to or from OWNER)
\* at the moment the update is applied; a concurrent setWorkspaceRole or
\* inviteMember that lowers the actor or raises the target to OWNER between
\* the actor's checks and the update cannot result in the change being applied.
C30_RoleHeldWhenUpdateApplied ==
  [][ChangeApplied =>
       MayChange(RoleNow(last'.args.userId, last'.args.workspaceId),
                 RoleNow(last'.args.targetUserId, last'.args.workspaceId),
                 last'.args.role)]_vars

\* what does hold: the acting user held the required role when the checks
\* were made, on the memberships the checks read
C30_RoleHeldWhenChecked ==
  [][ChangeApplied =>
       \E p \in Procs :
         /\ Awaits(p, "setWorkspaceRoleUpdate") /\ inflight'[p] = <<>>
         /\ inflight[p][1].args = last'.args
         /\ MayChange({inflight[p][1].context.acting.role},
                      {inflight[p][1].context.target.role},
                      last'.args.role)]_vars

\* a change by user 2 has been applied while user 2 is below ADMIN
C30_AppliedByDemotedActor ==
  /\ last.op = "setWorkspaceRole" /\ last.status = 200
  /\ last.args.userId = 2 /\ last.args.targetUserId = 3
  /\ RoleNow(2, 1) = {"VIEWER"}

====
